---- MODULE Spec2Model ----
(***************************************************************************)
(* Model of the retry orchestration of recursive-coder:                    *)
(* RecursiveCodeAgent (src/code_agent_integration.py) on top of one parent *)
(* RecursiveAgent (src/recursive_agent.py) and its children's workspaces.  *)
(*                                                                         *)
(* Strings are sequences of one-character strings, so that the name        *)
(* canonicalisation is computed character by character as re.sub does.     *)
(* File contents are abstracted to what the handlers branch on: whether a  *)
(* file exists, which task description the prompt holds, and which kinds   *)
(* of entries the error stream holds.  The worker (managed_agent.run) and  *)
(* pytest are the environment: each invocation may raise, write or remove  *)
(* solution.py, write test_solution.py, and each test run may pass, fail   *)
(* or time out.  retry_child_agent is split at its loop: one action for    *)
(* the entry, one per iteration, one for the return after the loop; the    *)
(* control flow is synchronous, so no other call runs in between.          *)
(*                                                                         *)
(* The module follows the program one aspect at a time, each under its own *)
(* specification over the same variables:                                  *)
(*   Spec      the retry orchestration described above;                    *)
(*   TreeSpec  the tree of RecursiveAgent objects grown by                 *)
(*             create_child_agent, with every node's depth and timeout;    *)
(*   RunSpec   one agent's run_tests and run_code_with_timeout, with the   *)
(*             subprocess they start as the environment;                   *)
(*   MergeSpec the requirements files of an agent and its child            *)
(*             directories, and merge_child_requirements on them;          *)
(*   WorkspaceSpec  creation, re-creation, reset and diagnostics of a      *)
(*             node across restarts of the process, on the directories;    *)
(*   NameSpec  the canonical id of a name and the resolution of names;     *)
(*   RetrySpec retry_child_agent called without a bound, with the agent    *)
(*             objects and their max_retries;                              *)
(*   HistorySpec  long attempt lists, the bundle get_child_diagnostics     *)
(*             makes of them and the task a retry iteration composes;      *)
(*   RecordSpec  _record_attempt on texts of any length;                   *)
(*   RegistrySpec  the registry, the children map and the handle list      *)
(*             under creations, resets and look-ups of two names.          *)
(* The variables of the other aspects keep their initial value.            *)
(***************************************************************************)
EXTENDS Integers, Sequences, FiniteSets, TLC

\* ------------------------------------------------------------------ bounds
\* Largest max_retries a caller passes to retry_child_agent.
MaxRetries == 2
\* Cap on the AttemptRecords held for all nodes together.
MaxAttempts == 2
\* Cap on the length of self.managed_agents.
MaxHandles == 2
\* Cap on the RecursiveAgent objects below the root (TreeSpec).
MaxNodes == 2
\* Cap on the lines of all requirements files together, beyond which
\* nothing is appended to them (MergeSpec).
MaxLines == 2

\* ------------------------------------------------------- names and ids
\* config.CHILD_FOLDER_PREFIX
CHILD_FOLDER_PREFIX == <<"t", "a", "s", "k", "_">>

\* The character class [a-z0-9_].
SafeChars ==
    {"a", "b", "c", "d", "e", "f", "g", "h", "i", "j", "k", "l", "m", "n",
     "o", "p", "q", "r", "s", "t", "u", "v", "w", "x", "y", "z",
     "0", "1", "2", "3", "4", "5", "6", "7", "8", "9", "_"}

\* str.lower() on one character of the model's alphabet, as a string.  The
\* upper-case letters of the model are F and K.  "U0130" stands for the one
\* character LATIN CAPITAL LETTER I WITH DOT ABOVE, whose lower case is the
\* two characters "i" and COMBINING DOT ABOVE ("U0307"); it is the only
\* character whose lower case is longer than itself.
Lower(c) ==
    IF c = "F" THEN <<"f">>
    ELSE IF c = "K" THEN <<"k">>
    ELSE IF c = "U0130" THEN <<"i", "U0307">>
    ELSE <<c>>

\* child_name.lower()
RECURSIVE LowerName(_)
LowerName(child_name) ==
    IF child_name = << >> THEN << >>
    ELSE Lower(Head(child_name)) \o LowerName(Tail(child_name))

\* The name is not lower-cased before the substitution.
SafeNameKeepingCase(child_name) ==
    [i \in 1..Len(child_name) |->
        IF child_name[i] \in SafeChars THEN child_name[i] ELSE "_"]

\* re.sub(r"[^a-z0-9_]", "_", child_name.lower())
SafeName(child_name) ==
    LET lowered == LowerName(child_name)
    IN [i \in 1..Len(lowered) |->
           IF lowered[i] \in SafeChars THEN lowered[i] ELSE "_"]

\* child_folder_name = f"{config.CHILD_FOLDER_PREFIX}{safe_name}"
Canonicalize(child_name) == CHILD_FOLDER_PREFIX \o SafeName(child_name)

\* The child names callers pass.
Names == { <<"F">> }

\* Every node id the names can produce.
Ids == { Canonicalize(n) : n \in Names }

\* Task descriptions passed to create_subtask / reset_child_agent.
Descs == {"d1"}

\* Python's None for a name.
NoName == << >>

\* ------------------------------------------------------------------ state
VARIABLES
    has_model,        \* self.model is not None
    child_agents,     \* keys of self.agent.child_agents
    dirs,             \* the workspace directory of every id, on disk
    managed_registry, \* self.managed_registry
    managed_agents,   \* self.managed_agents
    attempt_history,  \* self.attempt_history
    pc,               \* "idle", or "retry" inside retry_child_agent's loop
    sess,             \* locals of the running retry_child_agent call
    ret,              \* what the last call returned
    tree,             \* the RecursiveAgent objects reachable from the root,
                      \* by their path of child_agents keys
    tree_dirs,        \* the paths whose agent_dir is on disk
    ws,               \* the agent whose code and tests are run: its
                      \* timeout_seconds and the files of its agent_dir
    result,           \* what the last run_tests / run_code_with_timeout
                      \* returned, and what it did to get there
    req_files,        \* requirements.txt of an agent and of the
                      \* directories inside its agent_dir
    merged            \* what the last merge_child_requirements returned,
                      \* while the files are as that call left them

vars == <<has_model, child_agents, dirs, managed_registry, managed_agents,
          attempt_history, pc, sess, ret, tree, tree_dirs, ws, result,
          req_files, merged>>

\* The variables of the retry orchestration.
orchestration == <<has_model, child_agents, dirs, managed_registry,
                   managed_agents, attempt_history, pc, sess, ret>>

\* The variables of the agent tree.
agent_tree == <<tree, tree_dirs>>

\* The variables of the code and test runner.
runner == <<ws, result>>

\* The variables of the requirements merge.
requirements == <<req_files, merged>>

\* A directory that is not on disk.
NoDir == [exists |-> FALSE, prompt |-> "none", solution |-> FALSE,
          test |-> FALSE, errs |-> {}]

\* A key that is not in managed_registry; agent 0 is None.
NoEntry == [present |-> FALSE, child_name |-> NoName, agent |-> 0]

\* No retry_child_agent call is running.
NoSession == [child_name |-> NoName, managed_name |-> NoName, max_retries |-> 0,
              attempt_num |-> 0, invocations |-> 0, start_len |-> 0,
              start_solution |-> FALSE, wrote |-> FALSE,
              last_wrote |-> FALSE, task |-> << >>]

NoDiag == [present |-> FALSE, success |-> FALSE, attempt_count |-> 0]

\* test_results of a diagnostics bundle when no validation was run ({}).
NoTestResults == [ran |-> FALSE, success |-> FALSE, tests_found |-> FALSE]

\* The fields a returned dict can carry, with the value of an absent one;
\* child_name is the name the call was given, where a property needs it.
Ret(op, success, kind) ==
    [op |-> op, success |-> success, kind |-> kind, raised |-> FALSE,
     child_name |-> NoName, test_results |-> NoTestResults,
     attempt_count |-> 0, attempt_history |-> << >>,
     managed_name |-> NoName, attempts_used |-> 0, total_attempts |-> 0,
     final_diagnostics |-> NoDiag, preserve |-> FALSE,
     preserved_attempt_count |-> 0]

\* ------------------------------------------------- RecursiveAgent.__init__
\* config.DEFAULT_TIMEOUT, config.MIN_TIMEOUT, config.MAX_TIMEOUT (seconds)
DEFAULT_TIMEOUT == 300
MIN_TIMEOUT == 30
MAX_TIMEOUT == 3600

\* config.DEFAULT_RECURSION_DEPTH
DEFAULT_RECURSION_DEPTH == 5
DEFAULT_MAX_RETRIES == 3

Min(a, b) == IF a <= b THEN a ELSE b
Max(a, b) == IF a >= b THEN a ELSE b

\* An Optional[int] argument: None, or an integer.
None == [given |-> FALSE, value |-> 0]
Some(i) == [given |-> TRUE, value |-> i]

\* The constructor stores the timeout it is given.
TimeoutAsGiven(timeout_seconds) == timeout_seconds

\* self.timeout_seconds = max(config.MIN_TIMEOUT,
\*                            min(timeout_seconds, config.MAX_TIMEOUT))
ClampTimeout(timeout_seconds) ==
    Max(MIN_TIMEOUT, Min(timeout_seconds, MAX_TIMEOUT))

\* RecursiveAgent(timeout_seconds=..., recursion_depth=...,
\* max_recursion_depth=...): the fields of the constructed object.
\* expected_timeout is not a field: it remembers the argument
\* create_child_agent was called with (None for the root).
RecursiveAgent(timeout_seconds, max_retries, recursion_depth, max_recursion_depth, expected_timeout) ==
    [timeout_seconds |-> ClampTimeout(timeout_seconds),
     max_retries |-> max_retries,
     recursion_depth |-> recursion_depth,
     max_recursion_depth |-> max_recursion_depth,
     expected_timeout |-> expected_timeout]

\* The path of the root agent; a child's path is its parent's path with the
\* child's key in child_agents appended.
Root == << >>

\* A tree of the root alone.
RootOnly(agent) == [p \in {Root} |-> agent]

\* ------------------------------------------------------------ initial state
\* RecursiveCodeAgent.__init__: an empty registry, no handle, no history.
Quiet ==
    /\ child_agents = {}
    /\ dirs = [id \in Ids |-> NoDir]
    /\ managed_registry = [id \in Ids |-> NoEntry]
    /\ managed_agents = << >>
    /\ attempt_history = [id \in Ids |-> << >>]
    /\ pc = "idle"
    /\ sess = NoSession
    /\ ret = Ret("none", FALSE, "none")

\* A root agent constructed with the defaults and nothing below it.
LoneRoot ==
    /\ tree = RootOnly(RecursiveAgent(DEFAULT_TIMEOUT, DEFAULT_MAX_RETRIES, 0,
                                      DEFAULT_RECURSION_DEPTH, None))
    /\ tree_dirs = {Root}

\* The agent_dir of a constructed agent (AgentLogger.__init__ makes the
\* directory), holding or not solution.py and test_solution.py.
AgentDir(solution, test) ==
    [NoDir EXCEPT !.exists = TRUE, !.solution = solution, !.test = test]

\* An agent as the runner sees it; temp_script is _temp_exec.py on disk.
Workspace(timeout_seconds, solution, test) ==
    [timeout_seconds |-> ClampTimeout(timeout_seconds),
     dir |-> AgentDir(solution, test),
     temp_script |-> FALSE]

\* No run_tests or run_code_with_timeout call has returned yet.  Besides
\* the returned dict's success, tests_found and stderr, a result records
\* whether the call raised, whether a process was started, the timeout
\* subprocess.run was given, pytest's --timeout option, how long the
\* process ran, and the processes still alive when the call returned.
NoResult ==
    [op |-> "none", success |-> FALSE, tests_found |-> FALSE,
     stderr |-> "absent", raised |-> FALSE, outcome |-> "none",
     spawned |-> FALSE, hard_timeout |-> 0, pytest_timeout |-> 0,
     elapsed |-> 0, left_alive |-> {}]

\* An agent with no file of its own, and no call made.
RunnerIdle ==
    /\ ws = Workspace(DEFAULT_TIMEOUT, FALSE, FALSE)
    /\ result = NoResult

\* The agent's own directory and the directories inside it.
Self == "."
SubDirs == {"task_a", "task_b"}

\* mkdir order of those directories: task_a is the older one.
CreationOrder == <<"task_a", "task_b">>

\* A directory inside one of those: the agent_dir of a grandchild.
GrandDirs == {"task_a/task_c"}

\* Every directory whose requirements.txt the model follows.
ReqDirs == {Self} \cup SubDirs \cup GrandDirs

\* A requirements.txt that does not exist.
NoFile == [exists |-> FALSE, lines |-> << >>]

\* merge_child_requirements has not been called since the files last
\* changed under it.  Otherwise: the arguments of the call, the order in
\* which iterdir() listed the directories, the returned list, and whether
\* the call repeated the one before it (same argument, same listing, files
\* as that one left them).
NoMerge == [called |-> FALSE, include_self |-> FALSE, order |-> << >>,
            requirements |-> << >>, again |-> FALSE]

\* No requirements file anywhere, and no merge made.
RequirementsIdle ==
    /\ req_files = [d \in ReqDirs |-> NoFile]
    /\ merged = NoMerge

\* RecursiveCodeAgent.__init__ on a freshly constructed parent agent.
Init ==
    /\ has_model \in BOOLEAN
    /\ Quiet
    /\ LoneRoot
    /\ RunnerIdle
    /\ RequirementsIdle

\* ------------------------------------------------------------- resolution
\* Only the canonical id is looked up.
ResolveCanonicalOnly(registry, child_name) ==
    IF /\ Canonicalize(child_name) \in DOMAIN registry
       /\ registry[Canonicalize(child_name)].present
    THEN Canonicalize(child_name)
    ELSE NoName

\* "key in self.managed_registry"
InRegistry(registry, key) == key \in DOMAIN registry /\ registry[key].present

\* RecursiveCodeAgent._resolve_managed_name
ResolveManagedName(registry, child_name) ==
    IF InRegistry(registry, child_name)
    THEN child_name
    ELSE IF InRegistry(registry, Canonicalize(child_name))
         THEN Canonicalize(child_name)
         ELSE NoName

\* agent_name=f"{self.agent_name}::{child_folder_name}", as its "::" segments.
AgentName(child_folder_name) == << <<"R">>, child_folder_name >>

\* The first segment of the agent name is taken.
ManagedNameHead(agent_name) == agent_name[1]

\* child_agent.agent_name.split("::")[-1]
ManagedName(agent_name) == agent_name[Len(agent_name)]

\* ------------------------------------------------------- creating a child
\* create_child_agent on the workspace: mkdir(exist_ok=True), then the
\* prompt file is written anew; everything else in the directory stays.
DirAfterCreate(d, desc) == [d EXCEPT !.exists = TRUE, !.prompt = desc]

\* The CodeAgent is constructed only when a model is set, and the
\* construction may fail (the except branch of create_subtask).
AgentBuilt(model_set, ctor_ok) == model_set /\ ctor_ok

\* managed_agent = CodeAgent(...): an object distinct from every live one.
FreshHandle(agents) ==
    CHOOSE h \in 1..(Len(agents) + 1) :
        /\ \A i \in 1..Len(agents) : agents[i] # h
        /\ \A g \in 1..(h - 1) : \E i \in 1..Len(agents) : agents[i] = g

\* The registry entry create_subtask stores.
RegistryEntry(subtask_name, built, handle) ==
    [present |-> TRUE, child_name |-> subtask_name,
     agent |-> IF built THEN handle ELSE 0]

\* ---------------------------------------------------------------- worker
\* What one managed_agent.run() does: it may raise, and before that it may
\* have written or removed solution.py and written test_solution.py.
WorkerRuns == [exc : BOOLEAN, sol : {"keep", "write", "delete"},
               test : {"keep", "write"}]

\* The child's directory after the worker ran.
WorkerEffect(d, w) ==
    [d EXCEPT !.solution = IF w.sol = "write" THEN TRUE
                           ELSE IF w.sol = "delete" THEN FALSE ELSE @,
              !.test = IF w.test = "write" THEN TRUE ELSE @]

\* The ways a pytest subprocess can end: exit code 0, another exit code,
\* subprocess.TimeoutExpired.
TestOutcomes == {"pass", "fail", "timeout"}

\* The ways subprocess.run can end: those, an exception before the process
\* exists (OSError from Popen), and an exception while it runs (such as
\* output that does not decode).  To the orchestration the last two look
\* like a timeout: a failure with tests_found, logged to the error stream.
SubprocessOutcomes == TestOutcomes \cup {"spawn_error", "run_error"}

\* Only subprocess.TimeoutExpired is caught.
RunTestsCatchesTimeoutOnly(outcome) == outcome = "timeout"

\* "except subprocess.TimeoutExpired" and "except Exception" of run_tests.
RunTestsCatches(outcome) ==
    outcome \in {"timeout", "spawn_error", "run_error"}

\* The "stderr" of the dict run_tests returns: the process's own stderr,
\* "Pytest timed out", or str(e).
RunTestsStderr(outcome) ==
    IF outcome \in {"pass", "fail"} THEN "result.stderr"
    ELSE IF outcome = "timeout" THEN "Pytest timed out"
    ELSE "str(e)"

\* run_tests from "Running pytest" on: subprocess.run is called and ends as
\* outcome.  The result is the returned dict (without "stderr" the key is
\* absent), whether the call raised instead, whether a process was started,
\* and the directory afterwards (every failing path logs to the error
\* stream).
RunPytest(d, outcome) ==
    IF outcome \notin {"pass", "fail"} /\ ~RunTestsCatches(outcome)
    THEN [success |-> FALSE, tests_found |-> FALSE, stderr |-> "absent",
          raised |-> TRUE, spawned |-> outcome # "spawn_error", dir |-> d]
    ELSE [success |-> (outcome = "pass"), tests_found |-> TRUE,
          stderr |-> RunTestsStderr(outcome),
          raised |-> FALSE, spawned |-> outcome # "spawn_error",
          dir |-> IF outcome = "pass" THEN d
                  ELSE [d EXCEPT !.errs = @ \cup {"tests"}]]

\* pytest is run whether or not test_solution.py exists.
RunTestsWithoutFileCheck(d, outcome) == RunPytest(d, outcome)

\* RecursiveAgent.run_tests
RunTests(d, outcome) ==
    IF ~d.test
    THEN [success |-> TRUE, tests_found |-> FALSE, stderr |-> "absent",
          raised |-> FALSE, spawned |-> FALSE, dir |-> d]
    ELSE RunPytest(d, outcome)

\* ------------------------------------------------------- attempt history
\* Attempts numbered from zero.
AttemptNumberZeroBased(attempts) == Len(attempts)

\* "attempt_number": len(attempts) + 1
AttemptNumber(attempts) == Len(attempts) + 1

\* An attempt is recorded only when the worker produced code.
RecordAttemptOnlyWithCode(attempts, has_code, has_output, test_success, error_summary) ==
    IF has_code
    THEN Append(attempts,
                [attempt_number |-> Len(attempts) + 1,
                 code_produced |-> has_code,
                 test_output |-> has_output,
                 test_success |-> test_success,
                 error_summary |-> error_summary])
    ELSE attempts

\* RecursiveCodeAgent._record_attempt
RecordAttempt(attempts, has_code, has_output, test_success, error_summary) ==
    Append(attempts,
           [attempt_number |-> AttemptNumber(attempts),
            code_produced |-> has_code,
            test_output |-> has_output,
            test_success |-> test_success,
            error_summary |-> error_summary])

\* str(exc) of the worker's exception, as error_summary.
ExcMessage == {"exc"}

\* "No solution.py written", as error_summary.
NoSolutionMessage == {"nosol"}

Total(history) ==
    LET RECURSIVE Sum(_)
        Sum(S) == IF S = {} THEN 0
                  ELSE LET x == CHOOSE y \in S : TRUE
                       IN Len(history[x]) + Sum(S \ {x})
    IN Sum(Ids)

\* ------------------------------------------------------ run_managed_agent
\* An entry without a handle is run like any other.
NotInitializedIgnored(agent_entry) == FALSE

\* agent_entry.get("agent") is None
NotInitialized(agent_entry) == agent_entry.agent = 0

\* The worker's exception is not caught by run_managed_agent.
ExceptMissing(w) == FALSE

\* The check for a missing solution.py is skipped.
SolutionNeverMissing(d) == FALSE

\* "except Exception" around managed_agent.run(): the worker's exception is
\* caught and turned into a returned failure.
ExceptCatches(w) == TRUE

\* solution_file and not solution_file.exists(), after the worker ran.
SolutionMissing(d) == ~d.solution

\* overall_success = test_results.get("success", False)
OverallSuccess(test_results) == test_results.success

\* RecursiveCodeAgent.run_managed_agent(child_name, task) run on the
\* directories ds, with the worker behaving as w and pytest ending as
\* outcome: whether the worker was invoked, the directories and the attempt
\* list of the resolved id afterwards, and the returned dict.
RunManagedAgentCall(child_name, ds, w, outcome) ==
    LET managed_name == ResolveManagedName(managed_registry, child_name)
        Unchanged(r) ==
            [invoked |-> FALSE, managed_name |-> managed_name, dirs |-> ds,
             history |-> attempt_history, ret |-> r]
    IN
    IF managed_name = NoName
    THEN Unchanged(Ret("run", FALSE, "not_found"))
    ELSE IF NotInitialized(managed_registry[managed_name])
    THEN Unchanged(Ret("run", FALSE, "not_initialized"))
    ELSE
    LET attempts == attempt_history[managed_name]
        d1 == WorkerEffect(ds[managed_name], w)
        Done(d, recorded, r) ==
            [invoked |-> TRUE, managed_name |-> managed_name,
             dirs |-> [ds EXCEPT ![managed_name] = d],
             history |-> [attempt_history EXCEPT ![managed_name] = recorded],
             ret |-> [r EXCEPT !.managed_name = managed_name]]
    IN
    IF w.exc
    THEN IF ExceptCatches(w)
         THEN Done(d1, RecordAttempt(attempts, FALSE, FALSE, FALSE, ExcMessage),
                   Ret("run", FALSE, "exception"))
         ELSE Done(d1, attempts,
                   [Ret("run", FALSE, "raised") EXCEPT !.raised = TRUE])
    ELSE IF managed_name \notin child_agents
    THEN Done(d1, RecordAttempt(attempts, FALSE, TRUE, FALSE, {}),
              Ret("run", FALSE, "validated"))
    ELSE IF SolutionMissing(d1)
    THEN Done(d1, RecordAttempt(attempts, FALSE, FALSE, FALSE, NoSolutionMessage),
              Ret("run", FALSE, "no_solution"))
    ELSE
    LET t == RunTests(d1, outcome)
    IN Done(t.dir,
            RecordAttempt(attempts, TRUE, TRUE, OverallSuccess(t), t.dir.errs),
            Ret("run", OverallSuccess(t), "validated"))

\* ------------------------------------------------- get_child_diagnostics
\* Validation is run whatever the directory holds.
DiagnosticsValidatesAlways(d) == TRUE

\* "if child_agent.solution_file.exists() and child_agent.test_file.exists()"
DiagnosticsValidates(d) == d.solution /\ d.test

\* The directory after get_child_diagnostics: validation is run when both
\* solution.py and test_solution.py exist.
DiagnosticsDir(d, outcome) ==
    IF DiagnosticsValidates(d) THEN RunTests(d, outcome).dir ELSE d

\* attempts[-5:]
HISTORY_TAIL == 5

\* The first five records are returned.
FirstAttempts(attempts) == SubSeq(attempts, 1, Min(HISTORY_TAIL, Len(attempts)))

\* "attempt_history": attempts[-5:]
LastAttempts(attempts) ==
    SubSeq(attempts, Max(1, Len(attempts) - HISTORY_TAIL + 1), Len(attempts))

\* "test_results" of the bundle: {} unless run_tests was called, and then
\* the dict that call returned.
DiagnosticsTestResults(d, outcome) ==
    IF DiagnosticsValidates(d)
    THEN [ran |-> TRUE, success |-> RunTests(d, outcome).success,
          tests_found |-> RunTests(d, outcome).tests_found]
    ELSE NoTestResults

\* The bundle get_child_diagnostics returns for an id (attempt_count and
\* whether the child was found).
Diagnostics(managed_name, history) ==
    IF managed_name \in child_agents
    THEN [present |-> TRUE, success |-> TRUE,
          attempt_count |-> Len(history[managed_name])]
    ELSE [present |-> TRUE, success |-> FALSE, attempt_count |-> 0]

\* ------------------------------------------------------ retry_child_agent
\* "max_retries: int = 3" in the signature of retry_child_agent.
RETRY_MAX_RETRIES == 3

\* A call without a bound runs one iteration more than the default.
RetryMaxRetriesOneMore(max_retries_arg) ==
    IF max_retries_arg.given THEN max_retries_arg.value
    ELSE RETRY_MAX_RETRIES + 1

\* The loop runs once more than asked.
InRangeOneMore(attempt_num, max_retries) == attempt_num <= max_retries + 1

\* attempts_used counts the iterations before the successful one.
SucceededResultShort(managed_name, attempt_num, history) ==
    [Ret("retry", TRUE, "succeeded") EXCEPT
        !.managed_name = managed_name,
        !.attempts_used = attempt_num - 1,
        !.total_attempts = Len(history[managed_name])]

\* The failure is returned without the final diagnostics.
ExhaustedResultBare(managed_name, max_retries, history, final_diag) ==
    [Ret("retry", FALSE, "exhausted") EXCEPT
        !.managed_name = managed_name,
        !.attempts_used = max_retries,
        !.total_attempts = Len(history[managed_name])]

\* for attempt_num in range(1, max_retries + 1)
InRange(attempt_num, max_retries) == attempt_num <= max_retries

\* One part of context_parts: its kind, and for the header of the previous
\* attempt its number and PASSED/FAILED tag, for the summary its lines.
Section(kind) == [kind |-> kind, attempt_number |-> 0, passed |-> FALSE, lines |-> << >>]

\* The test output of the previous attempt is shown whether or not it
\* failed.
PreviousAttemptAlwaysWithOutput(last) ==
    << [Section("previous") EXCEPT !.attempt_number = last.attempt_number,
                                   !.passed = last.test_success] >>
    \o (IF last.code_produced THEN << Section("code") >> ELSE << >>)
    \o (IF last.test_output THEN << Section("test_output") >> ELSE << >>)
    \o (IF last.error_summary # {} THEN << Section("errors") >> ELSE << >>)

\* "if prev_attempts:" the header of the latest attempt, its code if it
\* produced any, its test output if it has one and failed, its errors if it
\* has any.
PreviousAttempt(last) ==
    << [Section("previous") EXCEPT !.attempt_number = last.attempt_number,
                                   !.passed = last.test_success] >>
    \o (IF last.code_produced THEN << Section("code") >> ELSE << >>)
    \o (IF last.test_output /\ ~last.test_success
        THEN << Section("test_output") >> ELSE << >>)
    \o (IF last.error_summary # {} THEN << Section("errors") >> ELSE << >>)

\* "if len(prev_attempts) > 1:" one line per attempt, number and status.
AllPreviousAttempts(prev_attempts) ==
    [Section("summary") EXCEPT
        !.lines = [i \in 1..Len(prev_attempts) |->
                      [attempt_number |-> prev_attempts[i].attempt_number,
                       passed |-> prev_attempts[i].test_success]]]

\* context_parts, which augmented_task joins: the original prompt if the
\* prompt file exists, the previous attempt, the summary, and the revised
\* instructions with the closing directive.
AugmentedTask(d, prev_attempts) ==
    (IF d.exists THEN << Section("original") >> ELSE << >>)
    \o (IF prev_attempts # << >>
        THEN PreviousAttempt(prev_attempts[Len(prev_attempts)]) ELSE << >>)
    \o (IF Len(prev_attempts) > 1
        THEN << AllPreviousAttempts(prev_attempts) >> ELSE << >>)
    \o << Section("instructions") >>

\* The error stream is left as it is.
KeepErrors(d) == d

\* child_agent.logger.error_file.write_text("") before the worker runs.
ClearErrors(d) == [d EXCEPT !.errs = {}]

\* The dict returned on "if run_result.get('success')".
SucceededResult(managed_name, attempt_num, history) ==
    [Ret("retry", TRUE, "succeeded") EXCEPT
        !.managed_name = managed_name,
        !.attempts_used = attempt_num,
        !.total_attempts = Len(history[managed_name])]

\* The dict returned after the loop ("All retries exhausted").
ExhaustedResult(managed_name, max_retries, history, final_diag) ==
    [Ret("retry", FALSE, "exhausted") EXCEPT
        !.managed_name = managed_name,
        !.attempts_used = max_retries,
        !.total_attempts = Len(history[managed_name]),
        !.final_diagnostics = final_diag]

\* --------------------------------------------------------- create_subtask
\* RecursiveCodeAgent.create_subtask run on the given children map,
\* directories, registry and handle list (it is also the last step of
\* reset_child_agent): the same four afterwards, and the managed name.
CreateSubtaskCall(subtask_name, desc, ctor_ok, children, ds, registry, agents) ==
    LET child_folder_name == Canonicalize(subtask_name)
        managed_name == ManagedName(AgentName(child_folder_name))
        built == AgentBuilt(has_model, ctor_ok)
        managed_agent == FreshHandle(agents)
    IN [children |-> children \cup {child_folder_name},
        dirs |-> [ds EXCEPT ![child_folder_name] = DirAfterCreate(@, desc)],
        registry |-> [registry EXCEPT
                        ![managed_name] = RegistryEntry(subtask_name, built, managed_agent)],
        agents |-> IF built THEN Append(agents, managed_agent) ELSE agents,
        managed_name |-> managed_name]

CreateSubtaskStep(subtask_name, desc, ctor_ok) ==
    /\ pc = "idle"
    /\ AgentBuilt(has_model, ctor_ok) => Len(managed_agents) < MaxHandles
    /\ LET c == CreateSubtaskCall(subtask_name, desc, ctor_ok, child_agents, dirs,
                                  managed_registry, managed_agents)
       IN /\ child_agents' = c.children
          /\ dirs' = c.dirs
          /\ managed_registry' = c.registry
          /\ managed_agents' = c.agents
          /\ ret' = [Ret("create", TRUE, "created") EXCEPT
                        !.managed_name = c.managed_name]
    /\ sess' = NoSession
    /\ UNCHANGED <<has_model, attempt_history, pc>>

\* create_subtask where the agent objects are left out of the state.
CreateSubtask(subtask_name, desc, ctor_ok) ==
    /\ UNCHANGED <<agent_tree, runner, requirements>>
    /\ CreateSubtaskStep(subtask_name, desc, ctor_ok)

\* ------------------------------------------------------ run_managed_agent
\* A direct call of run_managed_agent.
RunManagedAgent(child_name, w, outcome) ==
    /\ UNCHANGED <<agent_tree, runner, requirements>>
    /\ pc = "idle"
    /\ Total(attempt_history) < MaxAttempts
    /\ LET r == RunManagedAgentCall(child_name, dirs, w, outcome)
       IN /\ dirs' = r.dirs
          /\ attempt_history' = r.history
          /\ ret' = r.ret
    /\ sess' = NoSession
    /\ UNCHANGED <<has_model, child_agents, managed_registry, managed_agents,
                   pc>>

\* ------------------------------------------------------ retry_child_agent
\* The bound of a call: the argument, or the default of the signature.
RetryMaxRetries(max_retries_arg) ==
    IF max_retries_arg.given THEN max_retries_arg.value
    ELSE RETRY_MAX_RETRIES

\* The call up to the loop: name resolution and the two early returns.
\* max_retries_arg is None when the caller passes no bound.
RetryStart(child_name, max_retries_arg) ==
    /\ UNCHANGED <<agent_tree, runner, requirements>>
    /\ pc = "idle"
    /\ LET managed_name == ResolveManagedName(managed_registry, child_name)
       IN IF managed_name = NoName
          THEN /\ ret' = Ret("retry", FALSE, "not_found")
               /\ UNCHANGED pc
               /\ sess' = NoSession
          ELSE IF \/ NotInitialized(managed_registry[managed_name])
                  \/ managed_name \notin child_agents
          THEN /\ ret' = [Ret("retry", FALSE, "not_initialized") EXCEPT
                             !.managed_name = managed_name]
               /\ UNCHANGED pc
               /\ sess' = NoSession
          ELSE /\ pc' = "retry"
               /\ sess' = [child_name |-> child_name,
                           managed_name |-> managed_name,
                           max_retries |-> RetryMaxRetries(max_retries_arg),
                           attempt_num |-> 1,
                           invocations |-> 0,
                           start_len |-> Len(attempt_history[managed_name]),
                           start_solution |-> dirs[managed_name].solution,
                           wrote |-> FALSE,
                           last_wrote |-> FALSE,
                           task |-> << >>]
               /\ ret' = [Ret("retry", FALSE, "running") EXCEPT
                             !.managed_name = managed_name]
    /\ UNCHANGED <<has_model, child_agents, dirs, managed_registry,
                   managed_agents, attempt_history>>

\* retry_child_agent called with max_retries given.
RetryBegin(child_name, max_retries) ==
    /\ Total(attempt_history) + max_retries <= MaxAttempts
    /\ RetryStart(child_name, Some(max_retries))

\* One iteration of the loop: diagnostics, the error stream cleared, the
\* worker run through run_managed_agent(managed_name, ...), and the decision.
RetryIteration(w, diag_outcome, outcome) ==
    /\ UNCHANGED <<agent_tree, runner, requirements>>
    /\ pc = "retry"
    /\ InRange(sess.attempt_num, sess.max_retries)
    /\ LET m == sess.managed_name
           diagnosed == [dirs EXCEPT ![m] = DiagnosticsDir(@, diag_outcome)]
           cleared == [diagnosed EXCEPT ![m] = ClearErrors(@)]
           r == RunManagedAgentCall(m, cleared, w, outcome)
           counted == [sess EXCEPT
                          !.task = AugmentedTask(dirs[m], attempt_history[m]),
                          !.invocations = IF r.invoked THEN @ + 1 ELSE @,
                          !.wrote = @ \/ (r.invoked /\ w.sol = "write"),
                          !.last_wrote = r.invoked /\ w.sol = "write"]
       IN /\ dirs' = r.dirs
          /\ attempt_history' = r.history
          /\ IF r.ret.raised
             THEN /\ pc' = "idle"
                  /\ sess' = counted
                  /\ ret' = [r.ret EXCEPT !.op = "retry"]
             ELSE IF r.ret.success
             THEN /\ pc' = "idle"
                  /\ sess' = counted
                  /\ ret' = SucceededResult(m, sess.attempt_num, r.history)
             ELSE /\ pc' = "retry"
                  /\ sess' = [counted EXCEPT !.attempt_num = @ + 1]
                  /\ UNCHANGED ret
    /\ UNCHANGED <<has_model, child_agents, managed_registry, managed_agents>>

\* The loop is over without a success: final diagnostics and the failure.
RetryExhausted(diag_outcome) ==
    /\ UNCHANGED <<agent_tree, runner, requirements>>
    /\ pc = "retry"
    /\ ~InRange(sess.attempt_num, sess.max_retries)
    /\ LET m == sess.managed_name
       IN /\ dirs' = [dirs EXCEPT ![m] = DiagnosticsDir(@, diag_outcome)]
          /\ ret' = ExhaustedResult(m, sess.max_retries, attempt_history,
                                    Diagnostics(m, attempt_history))
    /\ pc' = "idle"
    /\ UNCHANGED <<has_model, child_agents, managed_registry, managed_agents,
                   attempt_history, sess>>

\* ------------------------------------------------------ reset_child_agent
\* preserved_attempts: a copy of the id's list when preserve_history is
\* set, else the empty list.
PreservedAttempts(preserve_history, attempts) ==
    IF preserve_history THEN attempts ELSE << >>

\* Only the latest attempt is put back.
RestoredLatestOnly(preserve_history, preserved_attempts, new_managed_name, history) ==
    IF preserve_history /\ preserved_attempts # << >>
    THEN [history EXCEPT ![new_managed_name] =
             SubSeq(preserved_attempts, Len(preserved_attempts),
                    Len(preserved_attempts))]
    ELSE history

\* "if preserve_history and preserved_attempts": the list is stored under
\* the recreated node's managed name; otherwise attempt_history is untouched.
RestoredHistory(preserve_history, preserved_attempts, new_managed_name, history) ==
    IF preserve_history /\ preserved_attempts # << >>
    THEN [history EXCEPT ![new_managed_name] = preserved_attempts]
    ELSE history

\* shutil.rmtree(child_agent.agent_dir, ignore_errors=True)
RemovedDir(d) == NoDir

\* self.managed_agents without the popped entry's handle.
WithoutHandle(agents, entry) ==
    IF entry.present /\ entry.agent # 0
    THEN SelectSeq(agents, LAMBDA a : a # entry.agent)
    ELSE agents

ResetChildAgent(child_name, new_prompt, preserve_history, ctor_ok) ==
    /\ UNCHANGED <<agent_tree, runner, requirements>>
    /\ pc = "idle"
    /\ AgentBuilt(has_model, ctor_ok) => Len(managed_agents) < MaxHandles
    /\ LET child_folder_name == Canonicalize(child_name)
           preserved_attempts ==
               PreservedAttempts(preserve_history,
                                 attempt_history[child_folder_name])
           known == child_folder_name \in child_agents
           removed == IF known
                      THEN [dirs EXCEPT ![child_folder_name] = RemovedDir(@)]
                      ELSE dirs
           registry_entry == managed_registry[child_folder_name]
           c == CreateSubtaskCall(
                    child_name, new_prompt, ctor_ok,
                    child_agents \ {child_folder_name},
                    removed,
                    [managed_registry EXCEPT ![child_folder_name] = NoEntry],
                    WithoutHandle(managed_agents, registry_entry))
       IN /\ child_agents' = c.children
          /\ dirs' = c.dirs
          /\ managed_registry' = c.registry
          /\ managed_agents' = c.agents
          /\ attempt_history' =
                 RestoredHistory(preserve_history, preserved_attempts,
                                 c.managed_name, attempt_history)
          /\ ret' = [Ret("reset", TRUE, "reset") EXCEPT
                        !.managed_name = c.managed_name,
                        !.preserve = preserve_history,
                        !.preserved_attempt_count = Len(preserved_attempts)]
    /\ sess' = NoSession
    /\ UNCHANGED <<has_model, pc>>

\* -------------------------------------------------- get_child_diagnostics
\* A direct call of get_child_diagnostics: the name is resolved, with the
\* canonical id as the fallback, and looked up in the children map.
GetChildDiagnostics(child_name, outcome) ==
    /\ UNCHANGED <<agent_tree, runner, requirements>>
    /\ pc = "idle"
    /\ LET resolved == ResolveManagedName(managed_registry, child_name)
           managed_name == IF resolved = NoName
                           THEN Canonicalize(child_name)
                           ELSE resolved
       IN IF managed_name \notin child_agents
          THEN /\ ret' = [Ret("diagnostics", FALSE, "not_found") EXCEPT
                             !.child_name = child_name]
               /\ UNCHANGED dirs
          ELSE /\ dirs' = [dirs EXCEPT
                              ![managed_name] = DiagnosticsDir(@, outcome)]
               /\ ret' = [Ret("diagnostics", TRUE, "diagnostics") EXCEPT
                             !.child_name = child_name,
                             !.managed_name = managed_name,
                             !.test_results =
                                 DiagnosticsTestResults(dirs[managed_name],
                                                        outcome),
                             !.attempt_count =
                                 Len(attempt_history[managed_name]),
                             !.attempt_history =
                                 LastAttempts(attempt_history[managed_name]),
                             !.total_attempts =
                                 Len(attempt_history[managed_name])]
    /\ sess' = NoSession
    /\ UNCHANGED <<has_model, child_agents, managed_registry, managed_agents,
                   attempt_history, pc>>

\* ------------------------------------------------------------- new process
\* The program is started again on the same workspace: RecursiveAgent and
\* RecursiveCodeAgent are constructed anew (empty children map, registry,
\* handle list and history) and the directories on disk are what they were.
Restart ==
    /\ UNCHANGED <<agent_tree, runner, requirements>>
    /\ pc = "idle"
    /\ child_agents' = {}
    /\ managed_registry' = [id \in DOMAIN managed_registry |-> NoEntry]
    /\ managed_agents' = << >>
    /\ attempt_history' = [id \in DOMAIN attempt_history |-> << >>]
    /\ sess' = NoSession
    /\ ret' = Ret("none", FALSE, "none")
    /\ UNCHANGED <<has_model, dirs, pc>>

\* ---------------------------------------------------------- specification
Next ==
    \/ \E n \in Names, d \in Descs, ok \in BOOLEAN : CreateSubtask(n, d, ok)
    \/ \E n \in Names, w \in WorkerRuns, t \in TestOutcomes :
          RunManagedAgent(n, w, t)
    \/ \E n \in Names, k \in 0..MaxRetries : RetryBegin(n, k)
    \/ \E w \in WorkerRuns, t1 \in TestOutcomes, t2 \in TestOutcomes :
          RetryIteration(w, t1, t2)
    \/ \E t \in TestOutcomes : RetryExhausted(t)
    \/ \E n \in Names, d \in Descs, p \in BOOLEAN, ok \in BOOLEAN :
          ResetChildAgent(n, d, p, ok)

Spec == Init /\ [][Next]_vars

\* -------------------------------------------------- workspace specification
\* The task texts a node is created or reset with.
TaskTexts == {"d1", "d2"}

\* The worker runs that return without raising.
CompletedRuns == { w \in WorkerRuns : ~w.exc }

\* Creation, re-creation, worker runs that complete, reset, diagnostics and
\* restarts of the process, on the directories of the workspace.
WorkspaceNext ==
    \/ \E n \in Names, d \in TaskTexts, ok \in BOOLEAN : CreateSubtask(n, d, ok)
    \/ \E n \in Names, w \in CompletedRuns, t \in TestOutcomes :
          RunManagedAgent(n, w, t)
    \/ \E n \in Names, d \in TaskTexts, p \in BOOLEAN, ok \in BOOLEAN :
          ResetChildAgent(n, d, p, ok)
    \/ \E n \in Names, t \in TestOutcomes : GetChildDiagnostics(n, t)
    \/ Restart

WorkspaceSpec == Init /\ [][WorkspaceNext]_vars

\* --------------------------------------------------- history specification
\* The most records a node's attempt list gets.
MaxRecords == 6

\* The worker writes solution.py and test_solution.py and returns.
WritingRun == [exc |-> FALSE, sol |-> "write", test |-> "write"]

\* run_managed_agent called until the list holds MaxRecords records.
RunManagedAgentRepeatedly(child_name, outcome) ==
    /\ UNCHANGED <<agent_tree, runner, requirements>>
    /\ pc = "idle"
    /\ Total(attempt_history) < MaxRecords
    /\ LET r == RunManagedAgentCall(child_name, dirs, WritingRun, outcome)
       IN /\ dirs' = r.dirs
          /\ attempt_history' = r.history
          /\ ret' = r.ret
    /\ sess' = NoSession
    /\ UNCHANGED <<has_model, child_agents, managed_registry, managed_agents,
                   pc>>

\* The worker raises before it has written anything.
RaisingRun == [exc |-> TRUE, sol |-> "keep", test |-> "keep"]

\* The most records a node has when a retry session is started on it.
MaxPrior == 3

\* retry_child_agent called with max_retries=1 on a node with at most
\* MaxPrior records.
RetryOnce(child_name) ==
    /\ Total(attempt_history) <= MaxPrior
    /\ RetryStart(child_name, Some(1))

\* RecursiveCodeAgent.__init__ with a model.
HistoryInit ==
    /\ has_model = TRUE
    /\ Quiet
    /\ LoneRoot
    /\ RunnerIdle
    /\ RequirementsIdle

HistoryNext ==
    \/ \E n \in Names, d \in Descs : CreateSubtask(n, d, TRUE)
    \/ \E n \in Names, t \in {"pass", "fail"} : RunManagedAgentRepeatedly(n, t)
    \/ \E n \in Names : GetChildDiagnostics(n, "pass")
    \/ \E n \in Names : RetryOnce(n)
    \/ \E w \in {WritingRun, RaisingRun}, t \in {"pass", "fail"} :
          RetryIteration(w, t, t)
    \/ RetryExhausted("pass")

HistorySpec == HistoryInit /\ [][HistoryNext]_vars

\* ---------------------------------------------------- record specification
\* The caps of _record_attempt on the text fields of a record.
PROMPT_CAP == 3000
CODE_CAP == 5000
TEST_OUTPUT_CAP == 3000
ERROR_CAP == 2000

\* The most records written with their texts.
MaxTextRecords == 2

\* A text is a stretch of characters: where it starts in the output it was
\* taken from, and its length.  The empty string is one value.
EmptyText == [from |-> 0, len |-> 0]
Text(from, len) == IF len = 0 THEN EmptyText ELSE [from |-> from, len |-> len]

\* The text is stored whole.
Untruncated(text, cap) == text

\* text[:cap]
Truncate(text, cap) == Text(text.from, Min(text.len, cap))

\* The text fields of the dict _record_attempt appends: prompt_used is a
\* string, the other three arguments may be None (value 0).
\* "x[:cap] if x else default".
RecordAttemptTexts(attempts, prompt_used, code_produced, test_output, test_success, error_summary) ==
    Append(attempts,
           [attempt_number |-> AttemptNumber(attempts),
            prompt_used |-> IF prompt_used # EmptyText
                            THEN Truncate(prompt_used, PROMPT_CAP)
                            ELSE EmptyText,
            code_produced |-> IF code_produced.given /\ code_produced.value # EmptyText
                              THEN Some(Truncate(code_produced.value, CODE_CAP))
                              ELSE None,
            test_output |-> IF test_output.given /\ test_output.value # EmptyText
                            THEN Some(Truncate(test_output.value, TEST_OUTPUT_CAP))
                            ELSE None,
            test_success |-> test_success,
            error_summary |-> IF error_summary # EmptyText
                              THEN Truncate(error_summary, ERROR_CAP)
                              ELSE EmptyText])

\* The lengths of the texts a caller passes for a field with the given cap:
\* empty, short, exactly the cap, and longer than the cap.
TextsFor(cap) == { Text(1, len) : len \in {0, 40, cap, cap + 1, 2 * cap} }

\* A short text, passed for the fields a call does not vary.
ShortText == Text(1, 40)

\* The arguments of the calls: one field varies over TextsFor (and None
\* where the field may be None), the others are short.
RecordArguments ==
    { [prompt_used |-> t, code_produced |-> Some(ShortText),
       test_output |-> Some(ShortText), error_summary |-> ShortText] :
         t \in TextsFor(PROMPT_CAP) }
    \cup
    { [prompt_used |-> ShortText, code_produced |-> c,
       test_output |-> Some(ShortText), error_summary |-> ShortText] :
         c \in {None} \cup { Some(t) : t \in TextsFor(CODE_CAP) } }
    \cup
    { [prompt_used |-> ShortText, code_produced |-> Some(ShortText),
       test_output |-> o, error_summary |-> ShortText] :
         o \in {None} \cup { Some(t) : t \in TextsFor(TEST_OUTPUT_CAP) } }
    \cup
    { [prompt_used |-> ShortText, code_produced |-> Some(ShortText),
       test_output |-> Some(ShortText), error_summary |-> t] :
         t \in TextsFor(ERROR_CAP) }

\* A call of _record_attempt(managed_name, ...).
RecordAttemptCall(managed_name, args, test_success) ==
    /\ UNCHANGED <<agent_tree, runner, requirements>>
    /\ pc = "idle"
    /\ Len(attempt_history[managed_name]) < MaxTextRecords
    /\ attempt_history' =
           [attempt_history EXCEPT
               ![managed_name] =
                   RecordAttemptTexts(@, args.prompt_used, args.code_produced,
                                      args.test_output, test_success,
                                      args.error_summary)]
    /\ UNCHANGED <<has_model, child_agents, dirs, managed_registry,
                   managed_agents, pc, sess, ret>>

RecordNext ==
    \E id \in Ids, args \in RecordArguments, test_success \in BOOLEAN :
        RecordAttemptCall(id, args, test_success)

RecordSpec == HistoryInit /\ [][RecordNext]_vars

\* ------------------------------------------------------ name specification
\* The longest name a caller passes.
MaxNameLen == 2

\* The characters of the names callers pass: an upper-case letter, a digit,
\* a character outside [a-z0-9_], and the capital I with dot above.
NameChars == {"F", "9", "-", "U0130"}

\* The names subtasks are created with; the second has the shape of an id.
CreatedNames == { <<"F">>, Canonicalize(<<"F">>) }

\* The ids of the nodes that can exist.
NameIds == { Canonicalize(n) : n \in CreatedNames }

\* The names callers pass: every string over NameChars up to MaxNameLen
\* (the empty string too), the created names and the ids themselves.
AskedNames ==
    UNION { [1..n -> NameChars] : n \in 0..MaxNameLen }
        \cup CreatedNames \cup NameIds

\* The canonical id is computed for a name: the first statements of
\* create_child_agent, reset_child_agent and _resolve_managed_name.
CanonicalizeName(child_name) ==
    /\ UNCHANGED <<agent_tree, runner, requirements>>
    /\ pc = "idle"
    /\ ret' = [Ret("canonicalize", TRUE, "id") EXCEPT
                  !.child_name = child_name,
                  !.managed_name = Canonicalize(child_name)]
    /\ sess' = NoSession
    /\ UNCHANGED <<has_model, child_agents, dirs, managed_registry,
                   managed_agents, attempt_history, pc>>

\* A call of _resolve_managed_name.
ResolveName(child_name) ==
    /\ UNCHANGED <<agent_tree, runner, requirements>>
    /\ pc = "idle"
    /\ LET managed_name == ResolveManagedName(managed_registry, child_name)
       IN ret' = [Ret("resolve", managed_name # NoName,
                      IF managed_name = NoName THEN "not_found" ELSE "found")
                     EXCEPT !.child_name = child_name,
                            !.managed_name = managed_name]
    /\ sess' = NoSession
    /\ UNCHANGED <<has_model, child_agents, dirs, managed_registry,
                   managed_agents, attempt_history, pc>>

\* RecursiveCodeAgent.__init__ without a model, where the ids are NameIds.
NameInit ==
    /\ has_model = FALSE
    /\ child_agents = {}
    /\ dirs = [id \in NameIds |-> NoDir]
    /\ managed_registry = [id \in NameIds |-> NoEntry]
    /\ managed_agents = << >>
    /\ attempt_history = [id \in NameIds |-> << >>]
    /\ pc = "idle"
    /\ sess = NoSession
    /\ ret = Ret("none", FALSE, "none")
    /\ LoneRoot
    /\ RunnerIdle
    /\ RequirementsIdle

NameNext ==
    \/ \E n \in CreatedNames, d \in Descs, ok \in BOOLEAN : CreateSubtask(n, d, ok)
    \/ \E n \in AskedNames : CanonicalizeName(n)
    \/ \E n \in AskedNames : ResolveName(n)
    \/ \E n \in AskedNames : GetChildDiagnostics(n, "pass")

NameSpec == NameInit /\ [][NameNext]_vars

\* -------------------------------------------------- registry specification
\* A call of report_child_progress: the canonical id is looked up in the
\* children map.
ReportChildProgress(child_name) ==
    /\ UNCHANGED <<agent_tree, runner, requirements>>
    /\ pc = "idle"
    /\ LET child_folder_name == Canonicalize(child_name)
       IN ret' = IF child_folder_name \notin child_agents
                 THEN [Ret("progress", FALSE, "not_found") EXCEPT
                          !.child_name = child_name]
                 ELSE [Ret("progress", TRUE, "exists") EXCEPT
                          !.child_name = child_name,
                          !.managed_name = child_folder_name]
    /\ sess' = NoSession
    /\ UNCHANGED <<has_model, child_agents, dirs, managed_registry,
                   managed_agents, attempt_history, pc>>

\* RecursiveCodeAgent.__init__ with or without a model, where the ids are
\* NameIds.
RegistryInit ==
    /\ has_model \in BOOLEAN
    /\ child_agents = {}
    /\ dirs = [id \in NameIds |-> NoDir]
    /\ managed_registry = [id \in NameIds |-> NoEntry]
    /\ managed_agents = << >>
    /\ attempt_history = [id \in NameIds |-> << >>]
    /\ pc = "idle"
    /\ sess = NoSession
    /\ ret = Ret("none", FALSE, "none")
    /\ LoneRoot
    /\ RunnerIdle
    /\ RequirementsIdle

\* Nodes are created and reset under plain names and under names that have
\* the shape of an id, and looked up under both.
RegistryNext ==
    \/ \E n \in CreatedNames, d \in Descs, ok \in BOOLEAN : CreateSubtask(n, d, ok)
    \/ \E n \in CreatedNames, d \in Descs, p \in BOOLEAN, ok \in BOOLEAN :
          ResetChildAgent(n, d, p, ok)
    \/ \E n \in CreatedNames : ResolveName(n)
    \/ \E n \in CreatedNames : GetChildDiagnostics(n, "pass")
    \/ \E n \in CreatedNames : ReportChildProgress(n)

RegistrySpec == RegistryInit /\ [][RegistryNext]_vars

\* ============================================================ agent tree
\* The name create_child_agent is called with; its key is task_f, so the
\* tree of the model is a chain, and creating a child again replaces it.
TreeNames == { <<"F">> }

\* The timeout_seconds a root agent is constructed with: the default, one
\* below MIN_TIMEOUT, an odd one, one above MAX_TIMEOUT.
RootTimeouts == {DEFAULT_TIMEOUT, 20, 125, 4000}

\* The max_recursion_depth a root agent is constructed with.
RootMaxDepths == {1, 2}

\* The expected_timeout arguments of create_child_agent: None, zero, a
\* negative one, one inside [MIN_TIMEOUT, MAX_TIMEOUT], one above it.
ExpectedTimeouts == {None, Some(0), Some(0 - 5), Some(45), Some(4000)}

\* bool(expected_timeout), as the "or" of create_child_agent evaluates it.
Truthy(expected_timeout) ==
    expected_timeout.given /\ expected_timeout.value # 0

\* The child inherits the parent's timeout whole.
ChildTimeoutInherited(timeout_seconds, expected_timeout) ==
    IF Truthy(expected_timeout)
    THEN expected_timeout.value
    ELSE Max(timeout_seconds, MIN_TIMEOUT)

\* child_timeout = expected_timeout or max(self.timeout_seconds // 2,
\*                                         config.MIN_TIMEOUT)
ChildTimeout(timeout_seconds, expected_timeout) ==
    IF Truthy(expected_timeout)
    THEN expected_timeout.value
    ELSE Max(timeout_seconds \div 2, MIN_TIMEOUT)

\* The child is given its parent's depth.
ChildDepthSame(recursion_depth) == recursion_depth

\* recursion_depth=self.recursion_depth + 1
ChildDepth(recursion_depth) == recursion_depth + 1

\* decompose_task: "should_decompose": the only place the depth is compared
\* with max_recursion_depth; create_child_agent does not consult it.
ShouldDecompose(agent) == agent.recursion_depth < agent.max_recursion_depth

\* decompose_task: "timeout_for_children"
TimeoutForChildren(agent) == Max(agent.timeout_seconds \div 2, MIN_TIMEOUT)

\* p is q or an ancestor of q.
IsPrefix(p, q) == Len(p) <= Len(q) /\ SubSeq(q, 1, Len(p)) = p

\* The path of the parent of a node other than the root.
Parent(p) == SubSeq(p, 1, Len(p) - 1)

\* self.child_agents[child_folder_name] = child_agent: the new object takes
\* the key; an object that held it, and all below it, is no longer reachable.
WithChild(t, path, child_agent) ==
    [q \in {r \in DOMAIN t : ~IsPrefix(path, r)} \cup {path} |->
        IF q = path THEN child_agent ELSE t[q]]

\* The tree after parent.create_child_agent(child_name, _, expected_timeout).
CreateChildAgentCall(t, parent, child_name, expected_timeout) ==
    LET self == t[parent]
        child_folder_name == Canonicalize(child_name)
        child_timeout == ChildTimeout(self.timeout_seconds, expected_timeout)
        child_agent == RecursiveAgent(child_timeout,
                                      self.max_retries,
                                      ChildDepth(self.recursion_depth),
                                      self.max_recursion_depth,
                                      expected_timeout)
    IN [path |-> Append(parent, child_folder_name),
        tree |-> WithChild(t, Append(parent, child_folder_name), child_agent)]

\* RecursiveAgent.create_child_agent called on the agent at path parent:
\* child_dir.mkdir(parents=True, exist_ok=True), then the child object.
CreateChildAgent(parent, child_name, expected_timeout) ==
    /\ parent \in DOMAIN tree
    /\ LET c == CreateChildAgentCall(tree, parent, child_name, expected_timeout)
       IN /\ Cardinality(DOMAIN c.tree) <= MaxNodes + 1
          /\ tree' = c.tree
          /\ tree_dirs' = tree_dirs \cup {c.path}
    /\ UNCHANGED <<orchestration, runner, requirements>>

\* A root agent constructed with any timeout and depth limit.
TreeInit ==
    /\ has_model = FALSE
    /\ Quiet
    /\ \E timeout_seconds \in RootTimeouts,
          max_recursion_depth \in RootMaxDepths :
          tree = RootOnly(RecursiveAgent(timeout_seconds, DEFAULT_MAX_RETRIES,
                                         0, max_recursion_depth, None))
    /\ tree_dirs = {Root}
    /\ RunnerIdle
    /\ RequirementsIdle

TreeNext ==
    \E parent \in DOMAIN tree, n \in TreeNames, e \in ExpectedTimeouts :
        CreateChildAgent(parent, n, e)

TreeSpec == TreeInit /\ [][TreeNext]_vars

\* ----------------------------------------------------- retry specification
\* The max_retries the root agent is constructed with.
RootMaxRetries == {1, DEFAULT_MAX_RETRIES}

\* create_subtask with the agent objects: self.agent.create_child_agent
\* constructs the child below the root.
CreateSubtaskWithAgent(subtask_name, desc, ctor_ok) ==
    /\ CreateSubtaskStep(subtask_name, desc, ctor_ok)
    /\ LET c == CreateChildAgentCall(tree, Root, subtask_name, None)
       IN /\ tree' = c.tree
          /\ tree_dirs' = tree_dirs \cup {c.path}
    /\ UNCHANGED <<runner, requirements>>

\* retry_child_agent called without max_retries, on a node that has not
\* been run before.
RetryDefault(child_name) ==
    /\ Total(attempt_history) = 0
    /\ RetryStart(child_name, None)

\* A root agent constructed with any max_retries, and a model.
RetryInit ==
    /\ has_model = TRUE
    /\ Quiet
    /\ \E max_retries \in RootMaxRetries :
          tree = RootOnly(RecursiveAgent(DEFAULT_TIMEOUT, max_retries, 0,
                                         DEFAULT_RECURSION_DEPTH, None))
    /\ tree_dirs = {Root}
    /\ RunnerIdle
    /\ RequirementsIdle

RetryNext ==
    \/ \E n \in Names, d \in Descs, ok \in BOOLEAN :
          CreateSubtaskWithAgent(n, d, ok)
    \/ \E n \in Names : RetryDefault(n)
    \/ \E w \in WorkerRuns, t1 \in TestOutcomes, t2 \in TestOutcomes :
          RetryIteration(w, t1, t2)
    \/ \E t \in TestOutcomes : RetryExhausted(t)

RetrySpec == RetryInit /\ [][RetryNext]_vars

\* ================================================================ runner
\* config.PYTEST_TIMEOUT: "Individual test timeout in seconds"
PYTEST_TIMEOUT == 60

\* The timeout_seconds of the agent whose tests are run: one below
\* PYTEST_TIMEOUT and one above it.
RunnerTimeouts == {MIN_TIMEOUT, DEFAULT_TIMEOUT}

\* How long a started process runs when nothing stops it (seconds).
Durations == {10, 45, 100, 400}

\* The process a subprocess.run call starts: whether it can be started at
\* all, how long it runs, how it ends when left to finish, and whether
\* processes it started itself are still running when the call is over.
Processes ==
    [fate : {"exit_0", "exit_1", "spawn_error", "run_error"},
     duration : Durations,
     descendants : BOOLEAN]

\* The timeout arguments of run_code_with_timeout.
TimeoutArgs == {None, Some(0), Some(45)}

\* subprocess.run is given the smaller of the agent's timeout and
\* PYTEST_TIMEOUT.
HardTimeoutCapped(timeout_seconds) == Min(timeout_seconds, PYTEST_TIMEOUT)

\* subprocess.run(pytest_args, ..., timeout=self.timeout_seconds)
HardTimeout(timeout_seconds) == timeout_seconds

\* f"--timeout={config.PYTEST_TIMEOUT}" in pytest_args: the limit pytest
\* puts on each single test.
PytestTimeoutOption == PYTEST_TIMEOUT

\* The processes a finished subprocess.run call leaves running: nothing in
\* run_tests or run_code_with_timeout, and nothing in subprocess.run, ends
\* the processes that the started process started.
LeftAlive(process) == IF process.descendants THEN {"descendant"} ELSE {}

\* subprocess.run(args, capture_output=True, timeout=timeout): Popen may
\* raise; when the timeout expires the started process is killed
\* (Popen.kill) and waited for, and TimeoutExpired is raised; otherwise the
\* call returns the exit code or raises what went wrong while running.
SubprocessRun(process, timeout) ==
    IF process.fate = "spawn_error"
    THEN [outcome |-> "spawn_error", elapsed |-> 0, left_alive |-> {}]
    ELSE IF process.duration > timeout
    THEN [outcome |-> "timeout", elapsed |-> timeout,
          left_alive |-> LeftAlive(process)]
    ELSE [outcome |-> IF process.fate = "exit_0" THEN "pass"
                      ELSE IF process.fate = "exit_1" THEN "fail"
                      ELSE "run_error",
          elapsed |-> process.duration,
          left_alive |-> LeftAlive(process)]

\* self.run_tests() on the agent, with the pytest process behaving as
\* process if it is started.
CallRunTests(process) ==
    LET hard_timeout == HardTimeout(ws.timeout_seconds)
        ran == SubprocessRun(process, hard_timeout)
        t == RunTests(ws.dir, ran.outcome)
        \* subprocess.run was called: every way out of the try block says
        \* tests_found, or raises
        called == t.tests_found \/ t.raised
    IN /\ ws' = [ws EXCEPT !.dir = t.dir]
       /\ result' =
             IF called
             THEN [op |-> "run_tests", success |-> t.success,
                   tests_found |-> t.tests_found, stderr |-> t.stderr,
                   raised |-> t.raised, outcome |-> ran.outcome,
                   spawned |-> t.spawned, hard_timeout |-> hard_timeout,
                   pytest_timeout |-> PytestTimeoutOption,
                   elapsed |-> ran.elapsed, left_alive |-> ran.left_alive]
             ELSE [NoResult EXCEPT !.op = "run_tests",
                                   !.success = t.success,
                                   !.tests_found = t.tests_found]
       /\ UNCHANGED <<orchestration, agent_tree, requirements>>

\* self.run_code_with_timeout(code, timeout): _temp_exec.py is written, run,
\* and removed only when subprocess.run returned.
CallRunCodeWithTimeout(timeout, process) ==
    LET hard_timeout == IF Truthy(timeout) THEN timeout.value
                        ELSE ws.timeout_seconds
        ran == SubprocessRun(process, hard_timeout)
        returned == ran.outcome \in {"pass", "fail"}
    IN /\ ws' = [ws EXCEPT
                    !.temp_script = ~returned,
                    !.dir = IF returned THEN @
                            ELSE [@ EXCEPT !.errs = @ \cup {"exec"}]]
       /\ result' =
             [op |-> "run_code_with_timeout",
              success |-> (ran.outcome = "pass"),
              tests_found |-> FALSE,
              stderr |-> IF returned THEN "result.stderr"
                         ELSE IF ran.outcome = "timeout"
                         THEN "Execution timed out"
                         ELSE "str(e)",
              raised |-> FALSE, outcome |-> ran.outcome,
              spawned |-> ran.outcome # "spawn_error",
              hard_timeout |-> hard_timeout, pytest_timeout |-> 0,
              elapsed |-> ran.elapsed, left_alive |-> ran.left_alive]
       /\ UNCHANGED <<orchestration, agent_tree, requirements>>

\* An agent with any timeout, with or without solution.py and
\* test_solution.py.
RunInit ==
    /\ has_model = FALSE
    /\ Quiet
    /\ LoneRoot
    /\ \E timeout_seconds \in RunnerTimeouts, solution \in BOOLEAN,
          test \in BOOLEAN :
          ws = Workspace(timeout_seconds, solution, test)
    /\ result = NoResult
    /\ RequirementsIdle

RunNext ==
    \/ \E process \in Processes : CallRunTests(process)
    \/ \E timeout \in TimeoutArgs, process \in Processes :
          CallRunCodeWithTimeout(timeout, process)

RunSpec == RunInit /\ [][RunNext]_vars

\* ==================================================== requirements merge
\* Whitespace, to str.strip(), among the characters of the model.
Whitespace == {" "}

\* The lines found in requirements files: two requirements, one of them
\* also indented, a blank line and an indented comment.
Lines == { <<"a">>, <<"b">>, <<" ", "a">>, <<" ">>, <<" ", "#">> }

\* str.lstrip()
RECURSIVE LStrip(_)
LStrip(line) ==
    IF line # << >> /\ Head(line) \in Whitespace
    THEN LStrip(Tail(line))
    ELSE line

\* str.rstrip()
RECURSIVE RStrip(_)
RStrip(line) ==
    IF line # << >> /\ line[Len(line)] \in Whitespace
    THEN RStrip(SubSeq(line, 1, Len(line) - 1))
    ELSE line

\* stripped = line.strip()
Strip(line) == RStrip(LStrip(line))

\* "if not stripped or stripped.startswith('#'): continue"
Skipped(stripped) == stripped = << >> \/ Head(stripped) = "#"

\* Every line is returned as it stands in the file.
ReadRequirementsFileRaw(file) ==
    IF ~file.exists THEN << >> ELSE file.lines

\* RecursiveAgent._read_requirements_file
ReadRequirementsFile(file) ==
    IF ~file.exists
    THEN << >>
    ELSE SelectSeq([i \in 1..Len(file.lines) |-> Strip(file.lines[i])],
                   LAMBDA stripped : ~Skipped(stripped))

\* The elements of a list.
Range(seq) == {seq[i] : i \in 1..Len(seq)}

\* Every requirement read is appended, seen before or not.
AppendAll(list, reqs) == list \o reqs

\* "for req in ...: if req not in seen: seen.add(req); merged.append(req)",
\* where seen holds exactly the elements of the list built so far.
RECURSIVE AppendUnseen(_, _)
AppendUnseen(list, reqs) ==
    IF reqs = << >>
    THEN list
    ELSE AppendUnseen(IF Head(reqs) \in Range(list) THEN list
                      ELSE Append(list, Head(reqs)),
                      Tail(reqs))

\* The orders in which self.agent_dir.iterdir() can yield the directories:
\* the order is the file system's, so any.
IterdirOrders ==
    {o \in [1..Cardinality(SubDirs) -> SubDirs] :
        \A i, j \in DOMAIN o : i # j => o[i] # o[j]}

\* RecursiveAgent.collect_child_requirements, with iterdir() yielding the
\* directories in the given order.
RECURSIVE CollectChildRequirements(_, _, _)
CollectChildRequirements(files, order, list) ==
    IF order = << >>
    THEN list
    ELSE CollectChildRequirements(
             files, Tail(order),
             AppendUnseen(list, ReadRequirementsFile(files[Head(order)])))

\* The list merge_child_requirements builds and returns.
MergedRequirements(files, include_self, order) ==
    AppendUnseen(IF include_self
                 THEN AppendUnseen(<< >>, ReadRequirementsFile(files[Self]))
                 ELSE << >>,
                 CollectChildRequirements(files, order, << >>))

\* "\n".join(merged) + "\n" written to self.requirements_file.
WrittenFile(list) == [exists |-> TRUE, lines |-> list]

\* The file is written whatever the list holds.
WritesAlways(list) == TRUE

\* "if merged:"
WritesFile(list) == list # << >>

\* RecursiveAgent.merge_child_requirements(include_self)
MergeChildRequirements(include_self, order) ==
    /\ LET list == MergedRequirements(req_files, include_self, order)
       IN /\ req_files' = IF WritesFile(list)
                          THEN [req_files EXCEPT ![Self] = WrittenFile(list)]
                          ELSE req_files
          /\ merged' = [called |-> TRUE, include_self |-> include_self,
                        order |-> order,
                        requirements |-> list,
                        again |-> /\ merged.called
                                  /\ merged.include_self = include_self
                                  /\ merged.order = order]
    /\ UNCHANGED <<orchestration, agent_tree, runner>>

\* The lines of all requirements files together.
RECURSIVE TotalLines(_, _)
TotalLines(files, ds) ==
    IF ds = {} THEN 0
    ELSE LET d == CHOOSE x \in ds : TRUE
         IN Len(files[d].lines) + TotalLines(files, ds \ {d})

\* A worker (or the user) appends a line to the requirements.txt of the
\* agent, of a directory inside its agent_dir or of a grandchild, creating
\* the file.
AppendLine(d, line) ==
    /\ TotalLines(req_files, DOMAIN req_files) < MaxLines
    /\ req_files' = [req_files EXCEPT
                        ![d] = [exists |-> TRUE, lines |-> Append(@.lines, line)]]
    /\ merged' = NoMerge
    /\ UNCHANGED <<orchestration, agent_tree, runner>>

MergeInit ==
    /\ has_model = FALSE
    /\ Quiet
    /\ LoneRoot
    /\ RunnerIdle
    /\ RequirementsIdle

MergeNext ==
    \/ \E d \in ReqDirs, line \in Lines : AppendLine(d, line)
    \/ \E include_self \in BOOLEAN, order \in IterdirOrders :
          MergeChildRequirements(include_self, order)

MergeSpec == MergeInit /\ [][MergeNext]_vars

\* -------------------------------------------------------------- properties
\* The one node id of the model.
Node == Canonicalize(CHOOSE n \in Names : TRUE)

\* A retry_child_agent call that entered its loop is over.
SessionOver ==
    /\ pc = "idle"
    /\ ret.op = "retry"
    /\ ret.kind \in {"succeeded", "exhausted", "raised"}

\* The AttemptRecords appended since the running (or last) session began.
SessionRecords ==
    SubSeq(attempt_history[sess.managed_name], sess.start_len + 1,
           Len(attempt_history[sess.managed_name]))

\* The record _record_attempt writes for a worker invocation that raised.
ExceptionRecord(n) ==
    [attempt_number |-> n, code_produced |-> FALSE, test_output |-> FALSE,
     test_success |-> FALSE, error_summary |-> {"exc"}]

\* A step of the retry loop's body.
IterationStep == pc = "retry" /\ sess.attempt_num <= sess.max_retries

\* C1: in one retry_child_agent session the worker is invoked at most
\* max_retries times, whatever the outcomes of the invocations.
C1_InvocationsBounded ==
    sess.invocations <= sess.max_retries

C1_Witness ==
    /\ SessionOver
    /\ sess.max_retries = 2
    /\ sess.invocations = 2
    /\ SessionRecords[1].error_summary = {"exc"}
    /\ SessionRecords[2].code_produced

\* C2: every iteration of the retry loop appends exactly one AttemptRecord
\* to the node's history (the earlier records stay as they were), on each of
\* the three paths: worker raised, solution.py missing, validation ran.
C2_OneRecordPerIteration ==
    [][IterationStep =>
         LET old == attempt_history[sess.managed_name]
             new == attempt_history'[sess.managed_name]
         IN /\ Len(new) = Len(old) + 1
            /\ SubSeq(new, 1, Len(old)) = old
            /\ \A id \in Ids \ {sess.managed_name} :
                  attempt_history'[id] = attempt_history[id]]_vars

C2_Witness ==
    /\ pc = "retry"
    /\ sess.start_len = 0
    /\ Len(SessionRecords) = 2
    /\ SessionRecords[1].error_summary = {"exc"}
    /\ SessionRecords[2].error_summary = {"nosol"}

\* C3: a retry session ends with success=true if and only if, in its last
\* iteration, the worker wrote solution.py during that invocation and the
\* validation of the node succeeded.
C3_SucceededIffWrittenAndPassed ==
    (SessionOver /\ ret.kind # "raised") =>
        (ret.success <=>
            /\ sess.last_wrote
            /\ SessionRecords # << >>
            /\ SessionRecords[Len(SessionRecords)].test_success)

\* C4: when max_retries iterations pass without success, retry_child_agent
\* returns success=false with the final diagnostics bundle attached, and no
\* exception escapes.
C4_ExhaustedIsStructuredFailure ==
    (SessionOver /\ ~ret.success) =>
        /\ ret.kind = "exhausted"
        /\ ~ret.raised
        /\ sess.attempt_num = sess.max_retries + 1
        /\ ret.attempts_used = sess.max_retries
        /\ ret.final_diagnostics.present
        /\ ret.final_diagnostics.success
        /\ ret.final_diagnostics.attempt_count =
               Len(attempt_history[sess.managed_name])

C4_Witness ==
    /\ SessionOver
    /\ ret.kind = "exhausted"
    /\ sess.max_retries = 2
    /\ Len(SessionRecords) = 2
    /\ SessionRecords[2].error_summary = {"exc"}

\* C5: when the worker invocation raises in a retry iteration, the exception
\* is caught, one AttemptRecord with test_success=false and the exception
\* message as error_summary is appended, one unit of max_retries is used,
\* and the loop goes on (to the next iteration or to the exhausted return).
C5_WorkerExceptionIsRecorded ==
    [][\A w \in WorkerRuns, t1 \in TestOutcomes, t2 \in TestOutcomes :
         (w.exc /\ RetryIteration(w, t1, t2)) =>
            /\ attempt_history'[sess.managed_name] =
                  Append(attempt_history[sess.managed_name],
                         ExceptionRecord(Len(attempt_history[sess.managed_name]) + 1))
            /\ pc' = "retry"
            /\ sess'.attempt_num = sess.attempt_num + 1
            /\ sess'.invocations = sess.invocations + 1
            /\ ~ret'.raised]_vars

C5_Witness ==
    /\ pc = "retry"
    /\ sess.attempt_num = 2
    /\ sess.max_retries = 2
    /\ SessionRecords = << ExceptionRecord(sess.start_len + 1) >>

\* C6: for every N >= 1, a session with max_retries = N on a node without
\* solution.py, with a worker that never writes one, makes exactly N worker
\* invocations, appends exactly N AttemptRecords, all with
\* test_success=false, raises nothing and ends exhausted.
C6_NoArtifactExhausts ==
    (SessionOver /\ sess.max_retries >= 1
        /\ ~sess.start_solution /\ ~sess.wrote) =>
        /\ ret.kind = "exhausted"
        /\ ~ret.success
        /\ ~ret.raised
        /\ sess.invocations = sess.max_retries
        /\ Len(SessionRecords) = sess.max_retries
        /\ \A i \in 1..Len(SessionRecords) : ~SessionRecords[i].test_success

C6_Witness ==
    /\ SessionOver
    /\ sess.max_retries = 2
    /\ ~sess.start_solution
    /\ ~sess.wrote
    /\ Len(SessionRecords) = 2
    /\ SessionRecords[1].error_summary = {"nosol"}
    /\ SessionRecords[2].error_summary = {"nosol"}

\* C7: if the first successful iteration of a session is iteration k, the
\* session ends succeeded with attempts_used = k, exactly k AttemptRecords
\* were appended during it, and the worker was invoked k times and no more.
C7_SuccessAtIterationK ==
    (ret.op = "retry" /\ ret.success) =>
        /\ pc = "idle"
        /\ ret.kind = "succeeded"
        /\ ret.attempts_used >= 1
        /\ ret.attempts_used <= sess.max_retries
        /\ ret.attempts_used = sess.attempt_num
        /\ sess.invocations = ret.attempts_used
        /\ Len(SessionRecords) = ret.attempts_used
        /\ ret.total_attempts = sess.start_len + ret.attempts_used
        /\ \A i \in 1..Len(SessionRecords) :
              SessionRecords[i].test_success <=> (i = ret.attempts_used)

C7_Witness ==
    /\ ret.op = "retry"
    /\ ret.success
    /\ ret.attempts_used = 2
    /\ sess.start_len = 0
    /\ Len(attempt_history[sess.managed_name]) = 2
    /\ attempt_history[sess.managed_name][1] = ExceptionRecord(1)

\* C8: the AttemptRecord list of every node id has attempt_number equal to
\* the position (1, 2, ..., n), after any sequence of create_subtask,
\* run_managed_agent, retry_child_agent and reset_child_agent calls.
C8_AttemptNumbersArePositions ==
    \A id \in Ids : \A i \in 1..Len(attempt_history[id]) :
        attempt_history[id][i].attempt_number = i

C8_Witness ==
    /\ SessionOver
    /\ sess.start_len = 1
    /\ Len(attempt_history[Node]) = 2
    /\ attempt_history[Node][1].attempt_number = 1
    /\ attempt_history[Node][2].attempt_number = 2
    /\ attempt_history[Node][2].test_success

\* C9: reset_child_agent(name, preserve_history=True) on a node with n
\* AttemptRecords recreates the node under the same id with exactly those n
\* records, in order and with their attempt numbers; the next attempt
\* recorded for it gets number n + 1.
C9_ResetPreservesHistory ==
    [][\A n \in Names, d \in Descs, ok \in BOOLEAN :
         ResetChildAgent(n, d, TRUE, ok) =>
            /\ Canonicalize(n) \in child_agents'
            /\ ret'.managed_name = Canonicalize(n)
            /\ attempt_history'[Canonicalize(n)] = attempt_history[Canonicalize(n)]
            /\ ret'.preserved_attempt_count = Len(attempt_history[Canonicalize(n)])
            /\ RecordAttempt(attempt_history'[Canonicalize(n)],
                             FALSE, FALSE, FALSE, {})[
                   Len(attempt_history[Canonicalize(n)]) + 1].attempt_number
               = Len(attempt_history[Canonicalize(n)]) + 1]_vars

C9_Witness ==
    /\ ret.op = "reset"
    /\ ret.preserve
    /\ ret.preserved_attempt_count = 2
    /\ Len(attempt_history[ret.managed_name]) = 2
    /\ attempt_history[ret.managed_name][1].attempt_number = 1
    /\ attempt_history[ret.managed_name][2].attempt_number = 2
    /\ ret.managed_name \in child_agents
    /\ ~dirs[ret.managed_name].solution

\* C10: after reset_child_agent(name, preserve_history=False) the recreated
\* node's AttemptRecord list is empty, so that its next recorded attempt
\* has attempt_number 1.
C10_ResetWithoutPreserveClears ==
    (ret.op = "reset" /\ ~ret.preserve) =>
        /\ attempt_history[ret.managed_name] = << >>
        /\ AttemptNumber(attempt_history[ret.managed_name]) = 1

\* ------------------------------------------------ properties of the tree
\* The agents below the root.
Children == DOMAIN tree \ {Root}

\* The agents strictly above the one at path p.
Ancestors(p) == {q \in DOMAIN tree : IsPrefix(q, p) /\ q # p}

\* C11: every node's depth is at most its maxDepth: a createChild whose
\* child would lie deeper is refused and leaves no node behind.
C11_DepthWithinMax ==
    \A p \in DOMAIN tree :
        tree[p].recursion_depth <= tree[p].max_recursion_depth

\* C12: the root has depth 0, a child has its parent's depth plus one, and
\* so every node's depth is the number of its ancestors.
C12_DepthCountsAncestors ==
    /\ tree[Root].recursion_depth = 0
    /\ \A p \in Children :
          /\ Parent(p) \in DOMAIN tree
          /\ tree[p].recursion_depth = tree[Parent(p)].recursion_depth + 1
    /\ \A p \in DOMAIN tree :
          tree[p].recursion_depth = Cardinality(Ancestors(p))

\* A grandchild of the root is in the tree.
C12_Witness ==
    \E p \in Children : Len(p) = 2 /\ tree[p].recursion_depth = 2

\* C13: whenever an integer override is supplied (zero, negative ones and
\* ones above MAX_TIMEOUT included) the child's timeout is the override
\* clamped, min(MAX_TIMEOUT, max(MIN_TIMEOUT, override)); half the parent's
\* budget is used only when none is supplied.
C13_SuppliedOverrideClamped ==
    \A p \in Children :
        tree[p].expected_timeout.given =>
            tree[p].timeout_seconds =
                Min(MAX_TIMEOUT, Max(MIN_TIMEOUT, tree[p].expected_timeout.value))

\* 2^d
RECURSIVE Pow2(_)
Pow2(d) == IF d = 0 THEN 1 ELSE 2 * Pow2(d - 1)

\* The agent at p and all between it and the root were created without an
\* expected_timeout.
Halved(p) == \A q \in DOMAIN tree :
                 (IsPrefix(q, p) /\ q # Root) => ~tree[q].expected_timeout.given

\* C14: an override inside [MIN_TIMEOUT, MAX_TIMEOUT] is the child's budget;
\* without an override the budget is the parent's, halved and clamped; so
\* under a root of budget T a node at depth d, reached without overrides,
\* has max(MIN_TIMEOUT, T div 2^d): 300, 150, 75.
C14_BudgetOfChild ==
    \A p \in Children :
        LET e == tree[p].expected_timeout
            parent == tree[Parent(p)]
        IN /\ (e.given /\ MIN_TIMEOUT <= e.value /\ e.value <= MAX_TIMEOUT)
                  => tree[p].timeout_seconds = e.value
           /\ ~e.given
                  => tree[p].timeout_seconds =
                         Min(MAX_TIMEOUT,
                             Max(MIN_TIMEOUT, parent.timeout_seconds \div 2))
           /\ Halved(p)
                  => tree[p].timeout_seconds =
                         Max(MIN_TIMEOUT,
                             tree[Root].timeout_seconds \div Pow2(Len(p)))

\* A root of 300 seconds with a child of 150 and a grandchild of 75, both
\* created without an override.
C14_Witness ==
    /\ tree[Root].timeout_seconds = 300
    /\ \E p \in Children :
          /\ Len(p) = 2
          /\ Halved(p)
          /\ tree[Parent(p)].timeout_seconds = 150
          /\ tree[p].timeout_seconds = 75

\* C15: every node's timeout lies in [MIN_TIMEOUT, MAX_TIMEOUT], whatever
\* timeout the root was constructed with and whatever override a child was
\* created with; no timeout is zero or negative.
C15_TimeoutInRange ==
    \A p \in DOMAIN tree :
        /\ MIN_TIMEOUT <= tree[p].timeout_seconds
        /\ tree[p].timeout_seconds <= MAX_TIMEOUT
        /\ tree[p].timeout_seconds > 0

\* A root constructed with 20 seconds holds MIN_TIMEOUT, and below it a
\* child created with 4000 holds MAX_TIMEOUT and one created with -5 holds
\* MIN_TIMEOUT.
C15_Witness ==
    /\ tree[Root].timeout_seconds = MIN_TIMEOUT
    /\ \E p, q \in Children :
          /\ tree[p].expected_timeout = Some(4000)
          /\ tree[p].timeout_seconds = MAX_TIMEOUT
          /\ tree[q].expected_timeout = Some(0 - 5)
          /\ tree[q].timeout_seconds = MIN_TIMEOUT

\* ---------------------------------------------- properties of the runner
\* C16: run_tests on a workspace without test_solution.py returns
\* success=True and tests_found=False and starts no process, whether or not
\* solution.py exists.
C16_NoTestFileSucceedsWithoutProcess ==
    [][\A process \in Processes :
          (CallRunTests(process) /\ ~ws.dir.test) =>
              /\ result'.success
              /\ ~result'.tests_found
              /\ ~result'.spawned
              /\ ~result'.raised
              /\ result'.left_alive = {}]_vars

\* run_tests returned on a workspace that holds solution.py but no test
\* file.
C16_Witness ==
    /\ result.op = "run_tests"
    /\ ~ws.dir.test
    /\ ws.dir.solution
    /\ result.success
    /\ ~result.tests_found

\* A run_tests call that got as far as calling subprocess.run.
PytestCalled == result.op = "run_tests" /\ (result.tests_found \/ result.raised)

\* C17 as stated: the wall-clock timeout of a validation run is
\* min(node.timeoutBudget, GLOBAL_TEST_TIMEOUT), so the process never runs
\* longer than the global test timeout.
C17_HardTimeoutIsMinOfBudgetAndGlobal ==
    PytestCalled =>
        /\ result.hard_timeout = Min(ws.timeout_seconds, PYTEST_TIMEOUT)
        /\ result.elapsed <= PYTEST_TIMEOUT

\* C17, amended: the wall-clock timeout of a validation run is the node's
\* timeout budget; PYTEST_TIMEOUT is only handed to pytest as its per-test
\* --timeout option.  The process never runs longer than the node's budget,
\* and is cut off exactly when it would.
C17_HardTimeoutIsBudget ==
    PytestCalled =>
        /\ result.hard_timeout = ws.timeout_seconds
        /\ result.pytest_timeout = PYTEST_TIMEOUT
        /\ result.elapsed <= ws.timeout_seconds
        /\ (result.outcome = "timeout") =>
               result.elapsed = ws.timeout_seconds

\* Under a budget of 300 seconds a pytest process ran for 100 seconds,
\* beyond PYTEST_TIMEOUT, and was not cut off.
C17_Witness ==
    /\ PytestCalled
    /\ ws.timeout_seconds = DEFAULT_TIMEOUT
    /\ result.elapsed = 100
    /\ result.outcome = "pass"
    /\ result.success

\* C18: run_tests never raises; when the test process times out, cannot be
\* started or fails while running, the call returns success=False and
\* tests_found=True with the failure's text in stderr.
C18_RunTestsNeverRaises ==
    result.op = "run_tests" =>
        /\ ~result.raised
        /\ result.outcome \in {"timeout", "spawn_error", "run_error"} =>
              /\ ~result.success
              /\ result.tests_found
              /\ result.stderr =
                     IF result.outcome = "timeout" THEN "Pytest timed out"
                     ELSE "str(e)"

\* run_tests returned after pytest could not be started.
C18_Witness ==
    /\ result.op = "run_tests"
    /\ result.outcome = "spawn_error"
    /\ ~result.success
    /\ result.tests_found
    /\ result.stderr = "str(e)"

\* C19: when run_tests or run_code_with_timeout times out, the process it
\* started and every process that one started are gone when the call
\* returns.
C19_NothingAliveAfterTimeout ==
    result.outcome = "timeout" => result.left_alive = {}

\* ----------------------------------------------- properties of the merge
\* A line without the whitespace around it.
Trim(line) ==
    LET inked == {i \in 1..Len(line) : line[i] \notin Whitespace}
    IN IF inked = {} THEN << >>
       ELSE SubSeq(line,
                   CHOOSE i \in inked : \A j \in inked : i <= j,
                   CHOOSE i \in inked : \A j \in inked : j <= i)

\* A string that is a requirement: not blank, not a comment, nothing to trim.
IsRequirement(req) == req # << >> /\ req[1] # "#" /\ Trim(req) = req

\* The requirements a file lists, in file order.
RECURSIVE Listed(_)
Listed(lines) ==
    IF lines = << >> THEN << >>
    ELSE (IF IsRequirement(Trim(Head(lines))) THEN <<Trim(Head(lines))>>
          ELSE << >>) \o Listed(Tail(lines))

\* The requirements the directories list, one directory after the other.
RECURSIVE ListedIn(_, _)
ListedIn(files, order) ==
    IF order = << >> THEN << >>
    ELSE Listed(files[Head(order)].lines) \o ListedIn(files, Tail(order))

\* Where x first occurs in seq.
FirstOccurrence(seq, x) ==
    CHOOSE i \in 1..Len(seq) :
        seq[i] = x /\ \A j \in 1..(i - 1) : seq[j] # x

\* C20: the list merge_child_requirements returns has no string twice and
\* keeps every requirement at the place of its first occurrence; with
\* include_self the node's own requirements come first, in file order,
\* before those only children list; blank lines and '#' lines never appear.
C20_MergedIsDedupedInFirstOccurrenceOrder ==
    [][\A include_self \in BOOLEAN, order \in IterdirOrders :
          MergeChildRequirements(include_self, order) =>
              LET m == merged'.requirements
                  own == IF include_self THEN Listed(req_files[Self].lines)
                         ELSE << >>
                  read == own \o ListedIn(req_files, order)
              IN /\ \A i, j \in 1..Len(m) : i # j => m[i] # m[j]
                 /\ \A i \in 1..Len(m) : IsRequirement(m[i])
                 /\ Range(m) = Range(read)
                 /\ \A i, j \in 1..Len(m) :
                       i < j => FirstOccurrence(read, m[i])
                                    < FirstOccurrence(read, m[j])
                 /\ \A i, j \in 1..Len(m) :
                       (m[i] \in Range(own) /\ m[j] \notin Range(own))
                           => i < j]_vars

\* A merge with include_self returned the one requirement a, where the
\* node's file lists a and a directory lists it again, indented: the second
\* one was dropped.
C20_Witness ==
    /\ merged.called
    /\ merged.include_self
    /\ merged.requirements = << <<"a">> >>
    /\ req_files[Self].lines = merged.requirements
    /\ \E d \in SubDirs : req_files[d].lines = << <<" ", "a">> >>

\* The requirements listed in the files of the grandchildren.
ListedByGrandchildren(files) ==
    UNION {Range(Listed(files[d].lines)) : d \in GrandDirs}

\* C21: the merged list of a node holds the requirements of every
\* descendant, so what only a grandchild's file lists is in it too.
C21_GrandchildRequirementsMerged ==
    [][\A include_self \in BOOLEAN, order \in IterdirOrders :
          MergeChildRequirements(include_self, order) =>
              ListedByGrandchildren(req_files)
                  \subseteq Range(merged'.requirements)]_vars

\* C22: requirements of different children come in the order the children
\* were created: what is first seen in the older child precedes what is
\* first seen in the younger one.
C22_ChildrenInCreationOrder ==
    [][\A include_self \in BOOLEAN, order \in IterdirOrders :
          MergeChildRequirements(include_self, order) =>
              LET m == merged'.requirements
                  own == IF include_self THEN Listed(req_files[Self].lines)
                         ELSE << >>
                  read == own \o ListedIn(req_files, CreationOrder)
              IN \A i, j \in 1..Len(m) :
                    (i < j /\ m[i] \in Range(read) /\ m[j] \in Range(read))
                        => FirstOccurrence(read, m[i])
                               < FirstOccurrence(read, m[j])]_vars

\* C23: the node's own file is written only when the merged list is not
\* empty, and then holds the list; an empty merge leaves every file as it
\* was, neither created nor emptied.
C23_EmptyMergeLeavesFile ==
    [][\A include_self \in BOOLEAN, order \in IterdirOrders :
          MergeChildRequirements(include_self, order) =>
              /\ merged'.requirements = << >> => req_files' = req_files
              /\ merged'.requirements # << >> =>
                    /\ req_files'[Self].exists
                    /\ req_files'[Self].lines = merged'.requirements
              /\ \A d \in ReqDirs \ {Self} : req_files'[d] = req_files[d]]_vars

\* A merge with include_self found nothing, and the node's file still holds
\* its one comment line.
C23_Witness ==
    /\ merged.called
    /\ merged.include_self
    /\ merged.requirements = << >>
    /\ req_files[Self] = [exists |-> TRUE, lines |-> << <<" ", "#">> >>]

\* C24: with no file changed in between and the directories listed in the
\* same order, a second merge with the same include_self returns the list
\* of the first and leaves the node's file as the first left it; with
\* include_self the result is the same in whatever order the directories
\* are listed the second time.
C24_MergeIdempotent ==
    [][\A include_self \in BOOLEAN, order \in IterdirOrders :
          (/\ MergeChildRequirements(include_self, order)
           /\ merged.called
           /\ merged.include_self = include_self
           /\ (merged.order = order \/ include_self)) =>
              /\ merged'.requirements = merged.requirements
              /\ req_files' = req_files]_vars

\* A merge without include_self repeated the one before it and returned
\* b, a: the two directories were listed younger first both times.
C24_Witness ==
    /\ merged.called
    /\ merged.again
    /\ ~merged.include_self
    /\ merged.order = <<"task_b", "task_a">>
    /\ merged.requirements = << <<"b">>, <<"a">> >>
    /\ req_files[Self].lines = merged.requirements

\* --------------------------------------------------- workspace properties
\* C27: create_subtask on a name whose directory is already on disk leaves
\* that directory as it was: task text, solution, test and error stream are
\* the same after the call as before.
C27_RecreateKeepsContent ==
    [][\A n \in Names, d \in TaskTexts, ok \in BOOLEAN :
          (CreateSubtask(n, d, ok) /\ dirs[Canonicalize(n)].exists) =>
              dirs'[Canonicalize(n)] = dirs[Canonicalize(n)]]_vars

\* C28: after reset_child_agent the directory of the canonical id holds the
\* new task text and nothing else, whether or not the id was in the
\* children map when the call was made.
C28_ResetLeavesOnlyNewPrompt ==
    [][\A n \in Names, d \in TaskTexts, p \in BOOLEAN, ok \in BOOLEAN :
          ResetChildAgent(n, d, p, ok) =>
              dirs'[Canonicalize(n)] = DirAfterCreate(NoDir, d)]_vars

\* C30 as stated: every get_child_diagnostics call on an existing node runs
\* the tests, also when solution.py or test_solution.py is missing.
C30_DiagnosticsAlwaysValidates ==
    [][\A n \in Names, t \in TestOutcomes :
          (GetChildDiagnostics(n, t) /\ ret'.success) =>
              ret'.test_results.ran]_vars

\* C30: a get_child_diagnostics call on an existing node runs the tests
\* exactly when solution.py and test_solution.py both exist, and then
\* reports the outcome of the process this call started, whatever earlier
\* runs reported; otherwise "test_results" is empty.
C30_DiagnosticsValidatesWhenBothFilesExist ==
    [][\A n \in Names, t \in TestOutcomes :
          (GetChildDiagnostics(n, t) /\ ret'.success) =>
              LET d == dirs[ret'.managed_name]
              IN ret'.test_results =
                     IF d.solution /\ d.test
                     THEN [ran |-> TRUE, success |-> (t = "pass"),
                           tests_found |-> TRUE]
                     ELSE NoTestResults]_vars

\* Diagnostics ran the tests and they failed, on a node whose latest
\* recorded attempt had passing tests.
C30_Witness ==
    /\ ret.op = "diagnostics"
    /\ ret.success
    /\ ret.test_results.ran
    /\ ~ret.test_results.success
    /\ LET attempts == attempt_history[ret.managed_name]
       IN /\ attempts # << >>
          /\ attempts[Len(attempts)].test_success

\* -------------------------------------------------------- name properties
\* The characters str.lower() and the substitution make of one character,
\* case by case.
CanonicalChars(c) ==
    IF c = "U0130" THEN <<"i", "_">>
    ELSE IF c = "F" THEN <<"f">>
    ELSE IF c = "K" THEN <<"k">>
    ELSE IF c \in SafeChars THEN <<c>>
    ELSE <<"_">>

RECURSIVE CanonicalTail(_)
CanonicalTail(name) ==
    IF name = << >> THEN << >>
    ELSE CanonicalChars(Head(name)) \o CanonicalTail(Tail(name))

\* The number of characters str.lower() makes of the name.
RECURSIVE LoweredLen(_)
LoweredLen(name) ==
    IF name = << >> THEN 0
    ELSE (IF Head(name) = "U0130" THEN 2 ELSE 1) + LoweredLen(Tail(name))

\* C25 as stated: the canonical id is the prefix followed by the lower-cased
\* name with every character outside [a-z0-9_] replaced by "_"; it has the
\* length of the prefix plus the length of the name and holds only
\* characters of [a-z0-9_].
C25_CanonicalIdHasLengthOfName ==
    ret.op = "canonicalize" =>
        /\ ret.managed_name = CHILD_FOLDER_PREFIX \o CanonicalTail(ret.child_name)
        /\ Len(ret.managed_name) =
               Len(CHILD_FOLDER_PREFIX) + Len(ret.child_name)
        /\ \A i \in 1..Len(ret.managed_name) : ret.managed_name[i] \in SafeChars

\* C25: the canonical id is a function of the name: the prefix followed by
\* the lower-cased name with every character outside [a-z0-9_] replaced by
\* "_".  It holds only characters of [a-z0-9_], and its length is the length
\* of the prefix plus the length of the lower-cased name, which is the
\* length of the name unless the name holds a character whose lower case is
\* longer than itself.
C25_CanonicalIdHasLengthOfLoweredName ==
    ret.op = "canonicalize" =>
        /\ ret.managed_name = CHILD_FOLDER_PREFIX \o CanonicalTail(ret.child_name)
        /\ Len(ret.managed_name) =
               Len(CHILD_FOLDER_PREFIX) + LoweredLen(ret.child_name)
        /\ (\A i \in 1..Len(ret.child_name) : ret.child_name[i] # "U0130") =>
               Len(ret.managed_name) =
                   Len(CHILD_FOLDER_PREFIX) + Len(ret.child_name)
        /\ \A i \in 1..Len(ret.managed_name) : ret.managed_name[i] \in SafeChars

\* The id of the name "F-" was computed: task_f_.
C25_Witness ==
    /\ ret.op = "canonicalize"
    /\ ret.child_name = <<"F", "-">>
    /\ ret.managed_name = <<"t", "a", "s", "k", "_", "f", "_">>

\* C26 as stated: resolving a name gives the node whose id is the canonical
\* id of the name, or nothing; never a node with another id.
C26_ResolvesToCanonicalIdOnly ==
    /\ ret.op = "resolve" =>
           ret.managed_name \in {NoName, Canonicalize(ret.child_name)}
    /\ (ret.op = "diagnostics" /\ ret.success) =>
           ret.managed_name = Canonicalize(ret.child_name)

\* C26: resolving a name gives the name itself when it is a registered id;
\* otherwise the canonical id of the name when that is registered; and
\* nothing when neither is.  Never an id that is neither the name nor its
\* canonical id, and never an unregistered one.
C26_ResolvesToNameOrCanonicalId ==
    LET name == ret.child_name
        registered == { id \in DOMAIN managed_registry :
                          managed_registry[id].present }
    IN /\ ret.op = "resolve" =>
             /\ name \in registered => ret.managed_name = name
             /\ (name \notin registered /\ Canonicalize(name) \in registered) =>
                    ret.managed_name = Canonicalize(name)
             /\ (name \notin registered /\ Canonicalize(name) \notin registered) =>
                    ret.managed_name = NoName
       /\ (ret.op = "diagnostics" /\ ret.success) =>
             /\ ret.managed_name \in child_agents
             /\ name \in registered => ret.managed_name = name
             /\ name \notin registered =>
                    ret.managed_name = Canonicalize(name)

\* The name task_f was resolved to the node task_f while the node
\* task_task_f, which has the canonical id of that name, existed too.
C26_Witness ==
    /\ ret.op = "resolve"
    /\ ret.child_name = Canonicalize(<<"F">>)
    /\ ret.managed_name = ret.child_name
    /\ managed_registry[Canonicalize(ret.child_name)].present

\* ------------------------------------------------------- retry properties
\* The agent object of the node a session is about.
SessionAgent == tree[<<sess.managed_name>>]

C31_DiagnosticsReadOnly ==
    [][\A n \in Names, t \in TestOutcomes :
          GetChildDiagnostics(n, t) =>
              /\ attempt_history' = attempt_history
              /\ dirs' = dirs]_vars

C33_ErrorSummaryOfThisIterationOnly ==
    [][\A w \in WorkerRuns, t1 \in TestOutcomes, t2 \in TestOutcomes :
          RetryIteration(w, t1, t2) =>
              LET m == sess.managed_name
                  new == attempt_history'[m]
                  record == new[Len(new)]
              IN /\ Len(new) = Len(attempt_history[m]) + 1
                 /\ record.error_summary =
                        IF w.exc THEN {"exc"}
                        ELSE IF ~dirs'[m].solution THEN {"nosol"}
                        ELSE IF dirs'[m].test /\ t2 # "pass" THEN {"tests"}
                        ELSE {}]_vars

\* A session on a node whose earlier attempt recorded the test failures of
\* the error stream succeeded in its first iteration, and that iteration's
\* record has an empty error_summary.
C33_Witness ==
    /\ pc = "idle"
    /\ ret.op = "retry"
    /\ ret.kind = "succeeded"
    /\ sess.start_len = 1
    /\ sess.invocations = 1
    /\ LET attempts == attempt_history[sess.managed_name]
       IN /\ Len(attempts) = 2
          /\ attempts[1].error_summary = {"tests"}
          /\ attempts[2].error_summary = {}
          /\ attempts[2].test_success

\* The place of each kind of section in the augmented task.
SectionRank(kind) ==
    CASE kind = "original" -> 1
      [] kind = "previous" -> 2
      [] kind = "code" -> 3
      [] kind = "test_output" -> 4
      [] kind = "errors" -> 5
      [] kind = "summary" -> 6
      [] kind = "instructions" -> 7

\* The kinds of the sections of a task, in their order.
Kinds(task) == [i \in 1..Len(task) |-> task[i].kind]

Has(task, kind) == \E i \in 1..Len(task) : task[i].kind = kind

\* C34: the augmented task of a retry iteration has its sections in the
\* order original task, block of the latest attempt (tag, code, test
\* output, errors), summary of all attempts, revised instructions.  The
\* original task is first and the instructions last, both always present;
\* the block is there exactly when the node has a previous attempt, with the
\* number and tag of the latest one, and shows test output only when that
\* attempt failed; the summary is there exactly when there is more than one
\* previous attempt, with one line per attempt.
C34_AugmentedTaskSectionsInOrder ==
    [][\A w \in WorkerRuns, t1 \in TestOutcomes, t2 \in TestOutcomes :
          RetryIteration(w, t1, t2) =>
              LET task == sess'.task
                  prev == attempt_history[sess.managed_name]
                  last == prev[Len(prev)]
              IN /\ \A i \in 1..(Len(task) - 1) :
                        SectionRank(task[i].kind) < SectionRank(task[i + 1].kind)
                 /\ task[1].kind = "original"
                 /\ task[Len(task)].kind = "instructions"
                 /\ Has(task, "previous") <=> prev # << >>
                 /\ \A i \in 1..Len(task) :
                        task[i].kind = "previous" =>
                            /\ task[i].attempt_number = Len(prev)
                            /\ task[i].passed = last.test_success
                 /\ \A k \in {"code", "test_output", "errors"} :
                        Has(task, k) => Has(task, "previous")
                 /\ Has(task, "test_output") => ~last.test_success
                 /\ Has(task, "summary") <=> Len(prev) > 1
                 /\ \A i \in 1..Len(task) :
                        task[i].kind = "summary" =>
                            /\ Len(task[i].lines) = Len(prev)
                            /\ \A j \in 1..Len(prev) :
                                   /\ task[i].lines[j].attempt_number = j
                                   /\ task[i].lines[j].passed =
                                          prev[j].test_success]_vars

\* An iteration on a node with three attempts composed a task with all
\* seven kinds of sections.
C34_Witness ==
    /\ sess.managed_name # NoName
    /\ sess.invocations = 1
    /\ Len(attempt_history[sess.managed_name]) = 4
    /\ Kinds(sess.task) = <<"original", "previous", "code", "test_output",
                            "errors", "summary", "instructions">>

\* ------------------------------------------------------ record properties
\* The stored text is the first characters of the supplied one, at most cap
\* of them.
IsPrefixWithin(stored, supplied, cap) ==
    /\ stored.len <= cap
    /\ stored.len <= supplied.len
    /\ stored.len = (IF supplied.len <= cap THEN supplied.len ELSE cap)
    /\ stored.len > 0 => stored.from = supplied.from

\* C35: whatever the lengths of the texts passed to _record_attempt, the
\* call appends one record whose prompt_used has at most 3000 characters,
\* code_produced at most 5000, test_output at most 3000 and error_summary
\* at most 2000, each the first characters of the text passed (None where
\* None or the empty string was passed for code or test output).
C35_RecordTextsTruncated ==
    [][\A id \in Ids, args \in RecordArguments, test_success \in BOOLEAN :
          RecordAttemptCall(id, args, test_success) =>
              LET new == attempt_history'[id]
                  record == new[Len(new)]
              IN /\ Len(new) = Len(attempt_history[id]) + 1
                 /\ IsPrefixWithin(record.prompt_used, args.prompt_used, 3000)
                 /\ IF args.code_produced.given /\ args.code_produced.value.len > 0
                    THEN /\ record.code_produced.given
                         /\ IsPrefixWithin(record.code_produced.value,
                                           args.code_produced.value, 5000)
                    ELSE ~record.code_produced.given
                 /\ IF args.test_output.given /\ args.test_output.value.len > 0
                    THEN /\ record.test_output.given
                         /\ IsPrefixWithin(record.test_output.value,
                                           args.test_output.value, 3000)
                    ELSE ~record.test_output.given
                 /\ IsPrefixWithin(record.error_summary, args.error_summary, 2000)]_vars

\* A record was written for a prompt of more than 3000 characters, and a
\* second one for code of more than 5000: each holds the capped text.
C35_Witness ==
    \E id \in Ids :
        /\ Len(attempt_history[id]) = 2
        /\ attempt_history[id][1].prompt_used = [from |-> 1, len |-> 3000]
        /\ attempt_history[id][2].code_produced = Some([from |-> 1, len |-> 5000])
        /\ attempt_history[id][2].attempt_number = 2

\* ---------------------------------------------------- registry properties
\* The keys of managed_registry.
RegistryKeys == { id \in DOMAIN managed_registry : managed_registry[id].present }

\* The worker handles registry entries refer to.
RegistryHandles ==
    { managed_registry[id].agent : id \in { k \in RegistryKeys :
                                             managed_registry[k].agent # 0 } }

\* C36: after any sequence of create_subtask and reset_child_agent calls
\* the keys of managed_registry are the keys of the children map, and each
\* key is the canonical id of the name its node was created with.
C36_RegistryKeysAreChildIds ==
    /\ RegistryKeys = child_agents
    /\ \A id \in RegistryKeys :
           id = Canonicalize(managed_registry[id].child_name)

\* Both nodes exist, the second under a name that has the shape of the
\* first one's id, and the last call was a reset.
C36_Witness ==
    /\ ret.op = "reset"
    /\ child_agents = NameIds
    /\ RegistryKeys = NameIds
    /\ managed_registry[Canonicalize(<<"F">>)].child_name = <<"F">>
    /\ managed_registry[Canonicalize(Canonicalize(<<"F">>))].child_name =
           Canonicalize(<<"F">>)

\* C37: managed_agents holds the worker handles the registry entries refer
\* to, each once, and no other handle.
C37_ManagedAgentsAreRegistryHandles ==
    /\ { managed_agents[i] : i \in 1..Len(managed_agents) } = RegistryHandles
    /\ \A i, j \in 1..Len(managed_agents) :
           managed_agents[i] = managed_agents[j] => i = j

\* C38: an operation called with a name acts on the node that the name
\* resolves to, which is the node retry_child_agent and run_managed_agent
\* act on: reset_child_agent, report_child_progress and
\* get_child_diagnostics each address that id.
C38_OperationsAddressResolvedNode ==
    [][\A n \in CreatedNames :
          LET managed_name == ResolveManagedName(managed_registry, n)
          IN managed_name # NoName =>
                /\ \A d \in Descs, p \in BOOLEAN, ok \in BOOLEAN :
                       ResetChildAgent(n, d, p, ok) =>
                           ret'.managed_name = managed_name
                /\ ReportChildProgress(n) => ret'.managed_name = managed_name
                /\ GetChildDiagnostics(n, "pass") =>
                       ret'.managed_name = managed_name]_vars

\* ------------------------------------------------ temporary-script property
\* C40: run_code_with_timeout never raises, and whichever way it returns
\* (exit code 0, another exit code, timeout, internal error) _temp_exec.py
\* is no longer in the agent's directory.
C40_TempScriptRemovedOnEveryPath ==
    result.op = "run_code_with_timeout" =>
        /\ ~result.raised
        /\ ~ws.temp_script

\* ------------------------------------------------ missing-handle property
\* The name resolves to no registry entry, or to an entry without a worker
\* handle.
NoLiveHandle(child_name) ==
    LET managed_name == ResolveManagedName(managed_registry, child_name)
    IN \/ managed_name = NoName
       \/ managed_registry[managed_name].agent = 0

\* C39: run_managed_agent and retry_child_agent called with a name that
\* resolves to no registry entry, or to a node without a worker handle,
\* return a failure without raising; no worker runs, no attempt record is
\* appended and no directory changes.
C39_NoHandleFailsWithoutEffect ==
    [][\A n \in Names :
          NoLiveHandle(n) =>
             /\ \A w \in WorkerRuns, t \in TestOutcomes :
                    RunManagedAgent(n, w, t) =>
                        /\ ret'.op = "run"
                        /\ ~ret'.success
                        /\ ~ret'.raised
                        /\ attempt_history' = attempt_history
                        /\ dirs' = dirs
             /\ \A k \in 0..MaxRetries :
                    RetryBegin(n, k) =>
                        /\ ret'.op = "retry"
                        /\ ~ret'.success
                        /\ ~ret'.raised
                        /\ pc' = "idle"
                        /\ sess'.invocations = 0
                        /\ attempt_history' = attempt_history
                        /\ dirs' = dirs]_vars

\* retry_child_agent reported a node that exists on disk and in the
\* registry, but without a handle, as not initialized.
C39_Witness ==
    /\ ret.op = "retry"
    /\ ret.kind = "not_initialized"
    /\ ~ret.success
    /\ ret.managed_name \in child_agents
    /\ managed_registry[ret.managed_name].present
    /\ managed_registry[ret.managed_name].agent = 0
    /\ dirs[ret.managed_name].exists
    /\ attempt_history[ret.managed_name] = << >>

====
